---- MODULE Spec2Model ----
(***************************************************************************)
(* Model of the native iceberg detection engine of                         *)
(* src/icetomultipletopicsv2slowed.py: IcebergOrder, MarketMetrics and     *)
(* RealMBOIcebergDetector, driven by the feed handlers handle_mbo_event,   *)
(* handle_trades, handle_depth_info and on_interval.                       *)
(*                                                                         *)
(* Quantities (order sizes, fills) are fixed-point integers counting       *)
(* 1/Scale of a unit, so that trade_size / len(potential_orders) is exact  *)
(* for every match count the model reaches; Q(n) is the program number n.  *)
(* Ratios the program keeps as floats (averages, execution_percentage,     *)
(* scores, thresholds) are exact rationals <<numerator, denominator>>.     *)
(* Prices and pips are integers in one common price unit.                  *)
(***************************************************************************)
EXTENDS Integers, Sequences, FiniteSets, TLC

(***************************************************************************)
(* Bounds of the model and the inputs the feed draws from.                 *)
(***************************************************************************)
OrderIds == {1, 2}
Prices == {100, 101}
\* raw sizes of new-order, replace and trade events (before normalisation)
NewRawSizes == {10, 80}
ReplaceRawSizes == {20, 40, 80}
BookReplaceRawSizes == {40, 80}
TradeRawSizes == {80}
DepthPrices == {200}
\* replace, trade and new-order events of one run of the two-order feed
\* raw sizes of the feed of an instrument whose size multiplier is 1
UnitNewRawSizes == {5, 10, 40, 200}
UnitReplaceRawSizes == {10, 40}
UnitTradeRawSizes == {5}
\* raw sizes of the order whose progress is followed fill by fill
ProgressNewRawSizes == {50}
ProgressReplaceRawSizes == {10, 50}
\* the instruments of the admission feed (size multipliers), its raw order
\* sizes and the prices of its depth levels
AdmissionMultipliers == {0, 1, 2}
AdmissionRawSizes == {10, 40, 400}
AdmissionDepthPrices == {100, 200}
\* raw sizes of the orders and trades of the metrics feed (size multiplier 1)
MetricsNewRawSizes == {5, 400, 12000}
MetricsTradeRawSizes == {2, 400}
\* the percentile feed: lengths of the order-size window of an engine that
\* has been running, and raw sizes of the orders that follow
WarmLens == {50, 90, 100}
PercentileRawSizes == {5, 400, 3000}
\* raw sizes of the rules feed (size multiplier 1)
RulesNewRawSizes == {40}
RulesReplaceRawSizes == {10, 40}
RulesTradeRawSizes == {40}
\* raw sizes of the enriched variant's feed
V3NewRawSizes == {80}
V3ReplaceRawSizes == {40, 80}
V3TradeRawSizes == {20, 60}

\* sizes of malformed events
NegativeRawSizes == {-80}
MaxReplaces == 2
MaxTrades == 1
MaxNewOrders == 2
\* the same for the feed that follows one order id through its lifetimes
UnitReplaces == 8
UnitTrades == 1
UnitNewOrders == 2
ProgressReplaces == 4
ProgressTrades == 9
AdmissionNewOrders == 2
\* new-order events, trade events and clock steps of one run of the metrics feed
MetricsNewOrders == 3
MetricsTrades == 3
MetricsTicks == 3
\* new-order events of one run of the percentile feed
PercentileNewOrders == 3
\* replace and trade events of one run of the rules feed
RulesReplaces == 5
RulesTrades == 3
\* new-order, replace and trade events of one run of the feed that repeats
\* an identifier
ReuseNewOrders == 3
ReuseReplaces == 3
ReuseTrades == 1
\* REPLACE events of one run of the enriched variant's feed, and the filled
\* volume of an order (in program units) from which no further trade names it
V3Replaces == 2
V3MaxFilled == 90
DeepReplaces == 3
DeepTrades == 2
DeepNewOrders == 2

(***************************************************************************)
(* Arithmetic helpers.                                                     *)
(***************************************************************************)
RECURSIVE Gcd(_, _)
Gcd(a, b) == IF b = 0 THEN a ELSE Gcd(b, a % b)

RECURSIVE LcmUpTo(_)
LcmUpTo(n) == IF n <= 1 THEN 1 ELSE LET l == LcmUpTo(n - 1) IN (l * n) \div Gcd(l, n)

\* fixed-point denominator: every k <= number of order ids divides it
Scale == LcmUpTo(Cardinality(OrderIds))

Q(n) == n * Scale

Max2(a, b) == IF a >= b THEN a ELSE b
Min2(a, b) == IF a <= b THEN a ELSE b
Abs(a) == IF a < 0 THEN 0 - a ELSE a

\* rationals <<n, d>> with d > 0
Rat(n, d) == <<n, d>>
RInt(n) == <<n, 1>>
RLe(a, b) == a[1] * b[2] <= b[1] * a[2]
RLt(a, b) == a[1] * b[2] < b[1] * a[2]
RGe(a, b) == RLe(b, a)
RGt(a, b) == RLt(b, a)
REq(a, b) == a[1] * b[2] = b[1] * a[2]
RMax(a, b) == IF RGe(a, b) THEN a ELSE b
RMin(a, b) == IF RLe(a, b) THEN a ELSE b
RAdd(a, b) == <<a[1] * b[2] + b[1] * a[2], a[2] * b[2]>>
\* a * (p / q)
RMul(a, p, q) == <<a[1] * p, a[2] * q>>

RECURSIVE SumSeq(_)
SumSeq(s) == IF s = <<>> THEN 0 ELSE Head(s) + SumSeq(Tail(s))

\* sorted(s): position rank[i] of the result holds s[i], where rank[i] - 1
\* elements precede s[i] (the smaller ones, and the equal ones that come
\* earlier in s).  Written without recursion: a full window would nest too
\* deep.
Sorted(s) ==
    LET n == Len(s)
        rank == SubSeq([i \in 1..n |->
                          Cardinality({j \in 1..n :
                              s[j] < s[i] \/ (s[j] = s[i] /\ j < i)}) + 1], 1, n)
    IN SubSeq([k \in 1..n |-> s[CHOOSE i \in 1..n : rank[i] = k]], 1, n)

SeqMax(s) == CHOOSE x \in {s[i] : i \in 1..Len(s)} : \A j \in 1..Len(s) : s[j] <= x
SetMax(S) == CHOOSE x \in S : \A y \in S : y <= x
SetMin(S) == CHOOSE x \in S : \A y \in S : x <= y

InSeq(x, s) == \E i \in 1..Len(s) : s[i] = x

\* list.remove(x): drops the first occurrence
RECURSIVE RemoveFirst(_, _)
RemoveFirst(s, x) ==
    IF s = <<>> THEN <<>>
    ELSE IF Head(s) = x THEN Tail(s)
    ELSE <<Head(s)>> \o RemoveFirst(Tail(s), x)

\* deque(maxlen = cap).append(x)
DequeAppend(s, x, cap) ==
    IF Len(s) >= cap THEN Tail(s) \o <<x>> ELSE Append(s, x)

LastN(s, n) == IF Len(s) <= n THEN s ELSE SubSeq(s, Len(s) - n + 1, Len(s))

\* Python None (and a missing order id)
None == -1
Truthy(x) == x # None /\ x # 0

(***************************************************************************)
(* class IcebergOrder.  replace_events and execution_events are the two    *)
(* append-only logs; the model keeps their lengths and, for replace_events,*)
(* the sum of the logged 'size_change' entries.  The fields order_id's     *)
(* trader_id, price and timestamp are written once and never read.         *)
(***************************************************************************)
IcebergOrder(order_id, price, initial_size, is_bid, timestamp) ==
    [order_id |-> order_id,
     initial_size |-> initial_size,
     current_size |-> initial_size,
     max_visible_size |-> initial_size,
     is_bid |-> is_bid,
     last_update |-> timestamp,
     last_reported_filled |-> 0,
     price_history |-> <<price>>,
     current_price |-> price,
     price_changes |-> 0,
     total_filled |-> 0,
     refill_count |-> 0,
     size_decrease_count |-> 0,
     replace_events |-> [n |-> 0, size_change |-> 0],
     execution_events |-> 0,
     is_confirmed_iceberg |-> FALSE,
     iceberg_start_time |-> None,
     completion_time |-> None,
     execution_percentage |-> RInt(0),
     consecutive_refills |-> 0,
     min_size_seen |-> initial_size]

\* variant of add_execution that keeps the last fill instead of the running sum
add_execution_last_fill(o, filled_size, timestamp) ==
    LET total == filled_size
        estimated_total_size == Max2(total + o.current_size, o.max_visible_size)
    IN [o EXCEPT !.execution_events = @ + 1,
                 !.total_filled = total,
                 !.last_update = timestamp,
                 !.execution_percentage =
                     IF estimated_total_size > 0
                     THEN Rat(total, estimated_total_size) ELSE @]

\* variant of add_execution that takes the fill out of current_size
add_execution_consuming(o, filled_size, timestamp) ==
    LET total == o.total_filled + filled_size
        estimated_total_size == Max2(total + o.current_size, o.max_visible_size)
    IN [o EXCEPT !.execution_events = @ + 1,
                 !.total_filled = total,
                 !.current_size = @ - filled_size,
                 !.last_update = timestamp,
                 !.execution_percentage =
                     IF estimated_total_size > 0
                     THEN Rat(total, estimated_total_size) ELSE @]

\* IcebergOrder.add_execution
add_execution(o, filled_size, timestamp) ==
    LET total == o.total_filled + filled_size
        estimated_total_size == Max2(total + o.current_size, o.max_visible_size)
    IN [o EXCEPT !.execution_events = @ + 1,
                 !.total_filled = total,
                 !.last_update = timestamp,
                 !.execution_percentage =
                     IF estimated_total_size > 0
                     THEN Rat(total, estimated_total_size) ELSE @]

\* variant of add_replace_event that appends every new price to price_history
add_replace_event_appending(o, new_size, timestamp, new_price) ==
    LET old_size == o.current_size
        old_price == o.current_price
        size_change == new_size - old_size
        moved == new_price # None /\ new_price # old_price
        o1 == IF moved
              THEN [o EXCEPT !.current_price = new_price,
                             !.price_history = Append(@, new_price),
                             !.price_changes = @ + 1]
              ELSE o
        o2 == [o1 EXCEPT !.replace_events =
                  [n |-> @.n + 1, size_change |-> @.size_change + size_change]]
        o3 == IF size_change < 0
              THEN [add_execution(o2, Abs(size_change), timestamp)
                        EXCEPT !.size_decrease_count = @ + 1]
              ELSE o2
        o4 == IF new_size < o3.min_size_seen
              THEN [o3 EXCEPT !.min_size_seen = new_size] ELSE o3
        o5 == IF new_size > o4.max_visible_size
              THEN [o4 EXCEPT !.max_visible_size = new_size] ELSE o4
        o6 == IF size_change > 0 /\ old_size < o5.initial_size
              THEN [o5 EXCEPT !.refill_count = @ + 1, !.consecutive_refills = @ + 1]
              ELSE [o5 EXCEPT !.consecutive_refills = 0]
    IN [o6 EXCEPT !.current_size = new_size, !.last_update = timestamp]

\* variant of add_replace_event that never raises max_visible_size
add_replace_event_fixed_max(o, new_size, timestamp, new_price) ==
    LET old_size == o.current_size
        old_price == o.current_price
        size_change == new_size - old_size
        moved == new_price # None /\ new_price # old_price
        o1 == IF moved
              THEN [o EXCEPT !.current_price = new_price,
                             !.price_history =
                                 IF InSeq(new_price, @) THEN @ ELSE Append(@, new_price),
                             !.price_changes = @ + 1]
              ELSE o
        o2 == [o1 EXCEPT !.replace_events =
                  [n |-> @.n + 1, size_change |-> @.size_change + size_change]]
        o3 == IF size_change < 0
              THEN [add_execution(o2, Abs(size_change), timestamp)
                        EXCEPT !.size_decrease_count = @ + 1]
              ELSE o2
        o4 == IF new_size < o3.min_size_seen
              THEN [o3 EXCEPT !.min_size_seen = new_size] ELSE o3
        o6 == IF size_change > 0 /\ old_size < o4.initial_size
              THEN [o4 EXCEPT !.refill_count = @ + 1, !.consecutive_refills = @ + 1]
              ELSE [o4 EXCEPT !.consecutive_refills = 0]
    IN [o6 EXCEPT !.current_size = new_size, !.last_update = timestamp]

\* variant of add_replace_event in which only a size increase ends a run of
\* refills
add_replace_event_keeping_run(o, new_size, timestamp, new_price) ==
    LET old_size == o.current_size
        old_price == o.current_price
        size_change == new_size - old_size
        moved == new_price # None /\ new_price # old_price
        o1 == IF moved
              THEN [o EXCEPT !.current_price = new_price,
                             !.price_history =
                                 IF InSeq(new_price, @) THEN @ ELSE Append(@, new_price),
                             !.price_changes = @ + 1]
              ELSE o
        o2 == [o1 EXCEPT !.replace_events =
                  [n |-> @.n + 1, size_change |-> @.size_change + size_change]]
        o3 == IF size_change < 0
              THEN [add_execution(o2, Abs(size_change), timestamp)
                        EXCEPT !.size_decrease_count = @ + 1]
              ELSE o2
        o4 == IF new_size < o3.min_size_seen
              THEN [o3 EXCEPT !.min_size_seen = new_size] ELSE o3
        o5 == IF new_size > o4.max_visible_size
              THEN [o4 EXCEPT !.max_visible_size = new_size] ELSE o4
        o6 == IF size_change > 0 /\ old_size < o5.initial_size
              THEN [o5 EXCEPT !.refill_count = @ + 1, !.consecutive_refills = @ + 1]
              ELSE IF size_change > 0
                   THEN [o5 EXCEPT !.consecutive_refills = 0]
                   ELSE o5
    IN [o6 EXCEPT !.current_size = new_size, !.last_update = timestamp]

\* variant of add_replace_event that books the signed size change as the fill
add_replace_event_signed_fill(o, new_size, timestamp, new_price) ==
    LET old_size == o.current_size
        old_price == o.current_price
        size_change == new_size - old_size
        moved == new_price # None /\ new_price # old_price
        o1 == IF moved
              THEN [o EXCEPT !.current_price = new_price,
                             !.price_history =
                                 IF InSeq(new_price, @) THEN @ ELSE Append(@, new_price),
                             !.price_changes = @ + 1]
              ELSE o
        o2 == [o1 EXCEPT !.replace_events =
                  [n |-> @.n + 1, size_change |-> @.size_change + size_change]]
        o3 == IF size_change < 0
              THEN [add_execution(o2, size_change, timestamp)
                        EXCEPT !.size_decrease_count = @ + 1]
              ELSE o2
        o4 == IF new_size < o3.min_size_seen
              THEN [o3 EXCEPT !.min_size_seen = new_size] ELSE o3
        o5 == IF new_size > o4.max_visible_size
              THEN [o4 EXCEPT !.max_visible_size = new_size] ELSE o4
        o6 == IF size_change > 0 /\ old_size < o5.initial_size
              THEN [o5 EXCEPT !.refill_count = @ + 1, !.consecutive_refills = @ + 1]
              ELSE [o5 EXCEPT !.consecutive_refills = 0]
    IN [o6 EXCEPT !.current_size = new_size, !.last_update = timestamp]

\* IcebergOrder.add_replace_event; new_price = None when the price is unchanged
add_replace_event(o, new_size, timestamp, new_price) ==
    LET old_size == o.current_size
        old_price == o.current_price
        size_change == new_size - old_size
        moved == new_price # None /\ new_price # old_price
        o1 == IF moved
              THEN [o EXCEPT !.current_price = new_price,
                             !.price_history =
                                 IF InSeq(new_price, @) THEN @ ELSE Append(@, new_price),
                             !.price_changes = @ + 1]
              ELSE o
        o2 == [o1 EXCEPT !.replace_events =
                  [n |-> @.n + 1, size_change |-> @.size_change + size_change]]
        o3 == IF size_change < 0
              THEN [add_execution(o2, Abs(size_change), timestamp)
                        EXCEPT !.size_decrease_count = @ + 1]
              ELSE o2
        o4 == IF new_size < o3.min_size_seen
              THEN [o3 EXCEPT !.min_size_seen = new_size] ELSE o3
        o5 == IF new_size > o4.max_visible_size
              THEN [o4 EXCEPT !.max_visible_size = new_size] ELSE o4
        o6 == IF size_change > 0 /\ old_size < o5.initial_size
              THEN [o5 EXCEPT !.refill_count = @ + 1, !.consecutive_refills = @ + 1]
              ELSE [o5 EXCEPT !.consecutive_refills = 0]
    IN [o6 EXCEPT !.current_size = new_size, !.last_update = timestamp]

\* IcebergOrder.get_execution_ratio
get_execution_ratio(o) ==
    IF o.max_visible_size > 0 THEN Rat(o.total_filled, o.max_visible_size) ELSE RInt(0)

\* min(cap, k * 0.1) for a rational k
TenthCapped(k, cap) == RMin(cap, RMul(k, 1, 10))

\* variant of get_iceberg_score that subtracts the execution volume term
get_iceberg_score_subtracting(o) ==
    LET s1 == IF o.max_visible_size > 0
                 /\ RGt(Rat(o.min_size_seen, o.max_visible_size), Rat(3, 10))
              THEN Rat(3, 10) ELSE RInt(0)
        s2 == IF o.refill_count >= 2
              THEN RAdd(s1, TenthCapped(RInt(o.refill_count), Rat(4, 10))) ELSE s1
        execution_ratio == get_execution_ratio(o)
        s3 == IF RGt(execution_ratio, Rat(15, 10))
              THEN RAdd(s2, RMul(TenthCapped(execution_ratio, Rat(3, 10)), -1, 1)) ELSE s2
    IN RMin(s3, RInt(1))

\* variant of get_iceberg_score whose refill term starts at three refills
get_iceberg_score_late_refill(o) ==
    LET s1 == IF o.max_visible_size > 0
                 /\ RGt(Rat(o.min_size_seen, o.max_visible_size), Rat(3, 10))
              THEN Rat(3, 10) ELSE RInt(0)
        s2 == IF o.refill_count >= 3
              THEN RAdd(s1, TenthCapped(RInt(o.refill_count), Rat(4, 10))) ELSE s1
        execution_ratio == get_execution_ratio(o)
        s3 == IF RGt(execution_ratio, Rat(15, 10))
              THEN RAdd(s2, TenthCapped(execution_ratio, Rat(3, 10))) ELSE s2
    IN RMin(s3, RInt(1))

\* variant of get_iceberg_score whose refill term counts the first refill
get_iceberg_score_every_refill(o) ==
    LET s1 == IF o.max_visible_size > 0
                 /\ RGt(Rat(o.min_size_seen, o.max_visible_size), Rat(3, 10))
              THEN Rat(3, 10) ELSE RInt(0)
        s2 == IF o.refill_count >= 1
              THEN RAdd(s1, TenthCapped(RInt(o.refill_count), Rat(4, 10))) ELSE s1
        execution_ratio == get_execution_ratio(o)
        s3 == IF RGt(execution_ratio, Rat(15, 10))
              THEN RAdd(s2, TenthCapped(execution_ratio, Rat(3, 10))) ELSE s2
    IN RMin(s3, RInt(1))

\* IcebergOrder.get_iceberg_score
get_iceberg_score(o) ==
    LET s1 == IF o.max_visible_size > 0
                 /\ RGt(Rat(o.min_size_seen, o.max_visible_size), Rat(3, 10))
              THEN Rat(3, 10) ELSE RInt(0)
        s2 == IF o.refill_count >= 2
              THEN RAdd(s1, TenthCapped(RInt(o.refill_count), Rat(4, 10))) ELSE s1
        execution_ratio == get_execution_ratio(o)
        s3 == IF RGt(execution_ratio, Rat(15, 10))
              THEN RAdd(s2, TenthCapped(execution_ratio, Rat(3, 10))) ELSE s2
    IN RMin(s3, RInt(1))

(***************************************************************************)
(* class MarketMetrics.  timestamp_history is written and never read.      *)
(***************************************************************************)
window_size == 100
volume_window_size == 50
update_interval == 5

MarketMetrics ==
    [order_sizes |-> <<>>,
     trade_sizes |-> <<>>,
     volume_history |-> <<>>,
     avg_order_size |-> RInt(0),
     avg_trade_size |-> RInt(0),
     volume_rate |-> RInt(0),
     last_update |-> 0]

\* MarketMetrics._update_metrics
update_metrics(m) ==
    [m EXCEPT
       !.avg_order_size = IF m.order_sizes # <<>>
                          THEN Rat(SumSeq(m.order_sizes), Len(m.order_sizes))
                          ELSE RInt(Q(50)),
       !.avg_trade_size = IF m.trade_sizes # <<>>
                          THEN Rat(SumSeq(m.trade_sizes), Len(m.trade_sizes))
                          ELSE RInt(Q(30)),
       !.volume_rate = IF Len(m.volume_history) >= 2
                       THEN Rat(SumSeq(LastN(m.volume_history, 10)),
                                Min2(10, Len(m.volume_history)))
                       ELSE RInt(Q(100))]

\* MarketMetrics._maybe_update_metrics
maybe_update_metrics(m, current_time) ==
    IF current_time - m.last_update >= update_interval
    THEN [update_metrics(m) EXCEPT !.last_update = current_time]
    ELSE m

\* MarketMetrics.add_order
add_order(m, size, current_time) ==
    maybe_update_metrics(
        [m EXCEPT !.order_sizes = DequeAppend(@, size, window_size)], current_time)

\* MarketMetrics.add_trade
metrics_add_trade(m, size, current_time) ==
    maybe_update_metrics(
        [m EXCEPT !.trade_sizes = DequeAppend(@, size, window_size)], current_time)

\* MarketMetrics.add_volume_sample
add_volume_sample(m, volume) ==
    [m EXCEPT !.volume_history = DequeAppend(@, volume, volume_window_size)]

\* variant of get_volume_rate that returns the cached value as it is
get_volume_rate_cached(m) == m.volume_rate

get_avg_order_size(m) == RMax(m.avg_order_size, RInt(Q(10)))
get_avg_trade_size(m) == RMax(m.avg_trade_size, RInt(Q(5)))
get_volume_rate(m) == RMax(m.volume_rate, RInt(Q(50)))

\* The products (percentile / 100) * n of integers percentile in 0..100 and
\* n in 1..window_size that IEEE double arithmetic rounds to just below their
\* integer value: 0.58 * 50, 0.7 * 90, 0.29 * 100, 0.57 * 100 and 0.58 * 100
\* (28.999999999999996, 62.99999999999999, ...).  Every other product in
\* that range truncates to floor(percentile * n / 100).
FloatShort == {<<58, 50>>, <<70, 90>>, <<29, 100>>, <<57, 100>>, <<58, 100>>}

\* int((percentile / 100) * n)
PercentileIndex(percentile, n) ==
    IF <<percentile, n>> \in FloatShort
    THEN (percentile * n) \div 100 - 1
    ELSE (percentile * n) \div 100

\* variant of get_percentile_order_size that returns the selected element as
\* it is
get_percentile_order_size_unfloored(m, percentile) ==
    IF m.order_sizes = <<>> THEN Q(100)
    ELSE LET sorted_sizes == Sorted(m.order_sizes)
             index == Min2(PercentileIndex(percentile, Len(sorted_sizes)),
                           Len(sorted_sizes) - 1)
         IN sorted_sizes[index + 1]

\* MarketMetrics.get_percentile_order_size
get_percentile_order_size(m, percentile) ==
    IF m.order_sizes = <<>> THEN Q(100)
    ELSE LET sorted_sizes == Sorted(m.order_sizes)
             index == Min2(PercentileIndex(percentile, Len(sorted_sizes)),
                           Len(sorted_sizes) - 1)
         IN Max2(sorted_sizes[index + 1], Q(20))

(***************************************************************************)
(* State of one RealMBOIcebergDetector (one instrument) and of its         *)
(* notification sink.                                                      *)
(*   active_orders        order id -> IcebergOrder                         *)
(*   potential_icebergs,                                                   *)
(*   confirmed_icebergs   key sets of the two dictionaries (their values   *)
(*                        are the objects of active_orders)                *)
(*   completed_icebergs   order id -> the completed IcebergOrder           *)
(*   orders_by_price      price -> list of order ids (defaultdict(list))   *)
(*   order_book_snapshot  key sets of the 'bids' and 'asks' dictionaries   *)
(*   outbox               the send_message calls of the last handled event,*)
(*                        each with the order as it was at the call        *)
(*   sent                 per order id, the number of send_message calls   *)
(*                        per topic since the id's IcebergOrder was created*)
(*   now                  time.time()                                      *)
(*   replaces             number of REPLACE events the feed has delivered  *)
(*   delivery             whether a message handed to a topic's bot reaches*)
(*                        the chat (requests.post answers 200)             *)
(***************************************************************************)
VARIABLES now, size_multiplier, pips, market_metrics, active_orders,
          potential_icebergs, confirmed_icebergs, completed_icebergs,
          orders_by_price, order_book_snapshot, best_bid, best_ask,
          total_icebergs_detected, total_icebergs_completed,
          recent_volume, last_volume_sample, outbox, sent, replaces, delivery

vars == <<now, size_multiplier, pips, market_metrics, active_orders,
          potential_icebergs, confirmed_icebergs, completed_icebergs,
          orders_by_price, order_book_snapshot, best_bid, best_ask,
          total_icebergs_detected, total_icebergs_completed,
          recent_volume, last_volume_sample, outbox, sent, replaces, delivery>>

\* RealMBOIcebergDetector.__init__: detection parameters
trigger_size_percentage == 10
max_visible_percentage == 150
min_visible_percentage == 10
volume_threshold_percentage == 30
alert_execution_ratio_threshold == 5
alert_total_filled_threshold == 80
time_window == 6000
execution_threshold == Rat(7, 10)
volume_sample_interval == 60
\* _handle_iceberg_near_completion: filled volume between two updates
progress_delta == 20
\* process_new_order: largest distance from the best price, in pips
max_distance_pips == 50

NoSent == [detections |-> 0, updates |-> 0, full_executions |-> 0]

\* the detector as one value, for the methods below
Detector ==
    [size_multiplier |-> size_multiplier, pips |-> pips,
     market_metrics |-> market_metrics, active_orders |-> active_orders,
     potential_icebergs |-> potential_icebergs,
     confirmed_icebergs |-> confirmed_icebergs,
     completed_icebergs |-> completed_icebergs,
     orders_by_price |-> orders_by_price,
     order_book_snapshot |-> order_book_snapshot,
     best_bid |-> best_bid, best_ask |-> best_ask,
     total_icebergs_detected |-> total_icebergs_detected,
     total_icebergs_completed |-> total_icebergs_completed,
     recent_volume |-> recent_volume, last_volume_sample |-> last_volume_sample,
     outbox |-> <<>>, sent |-> sent, delivery |-> delivery]

Commit(d) ==
    /\ size_multiplier' = d.size_multiplier
    /\ pips' = d.pips
    /\ market_metrics' = d.market_metrics
    /\ active_orders' = d.active_orders
    /\ potential_icebergs' = d.potential_icebergs
    /\ confirmed_icebergs' = d.confirmed_icebergs
    /\ completed_icebergs' = d.completed_icebergs
    /\ orders_by_price' = d.orders_by_price
    /\ order_book_snapshot' = d.order_book_snapshot
    /\ best_bid' = d.best_bid
    /\ best_ask' = d.best_ask
    /\ total_icebergs_detected' = d.total_icebergs_detected
    /\ total_icebergs_completed' = d.total_icebergs_completed
    /\ recent_volume' = d.recent_volume
    /\ last_volume_sample' = d.last_volume_sample
    /\ outbox' = d.outbox
    /\ sent' = d.sent

\* dictionary helpers
DictSet(f, k, v) == [x \in DOMAIN f \cup {k} |-> IF x = k THEN v ELSE f[x]]
DictDel(f, k) == [x \in DOMAIN f \ {k} |-> f[x]]

\* size / self.size_multiplier if self.size_multiplier > 0 else size
Normalize(d, size) ==
    IF d.size_multiplier > 0 THEN Q(size) \div d.size_multiplier ELSE Q(size)

\* telegram_bots[topic].send_message(...) for an order; reason is the detection
\* reason of the message text ("" on the other topics)
send_message(d, topic, o, reason) ==
    [d EXCEPT !.outbox = Append(@, [topic |-> topic, order |-> o, reason |-> reason,
                                    delivered |-> d.delivery]),
              !.sent[o.order_id][topic] = @ + 1]

\* variant of get_dynamic_thresholds that does not clamp trigger_size
get_dynamic_thresholds_unclamped_trigger(d) ==
    LET avg_order_size == get_avg_order_size(d.market_metrics)
        volume_rate == get_volume_rate(d.market_metrics)
        percentile_size == RInt(get_percentile_order_size(d.market_metrics, 75))
        trigger_size == RMax(RMul(avg_order_size, trigger_size_percentage, 100),
                             RMul(percentile_size, 5, 10))
        max_visible_size == RMul(avg_order_size, max_visible_percentage, 100)
        min_visible_size == RMul(avg_order_size, min_visible_percentage, 100)
        volume_threshold == RMul(volume_rate, volume_threshold_percentage, 100)
    IN [trigger_size |-> trigger_size,
        max_visible_size |-> RMax(RMin(max_visible_size, RInt(Q(1000))), RInt(Q(50))),
        min_visible_size |-> RMax(RMin(min_visible_size, RInt(Q(100))), RInt(Q(10))),
        volume_threshold |-> volume_threshold,
        avg_order_size |-> avg_order_size]

\* variant of get_dynamic_thresholds that caps min_visible_size with the cap
\* of max_visible_size
get_dynamic_thresholds_wide_min(d) ==
    LET avg_order_size == get_avg_order_size(d.market_metrics)
        volume_rate == get_volume_rate(d.market_metrics)
        percentile_size == RInt(get_percentile_order_size(d.market_metrics, 75))
        trigger_size == RMax(RMul(avg_order_size, trigger_size_percentage, 100),
                             RMul(percentile_size, 5, 10))
        max_visible_size == RMul(avg_order_size, max_visible_percentage, 100)
        min_visible_size == RMul(avg_order_size, min_visible_percentage, 100)
        volume_threshold == RMul(volume_rate, volume_threshold_percentage, 100)
    IN [trigger_size |-> RMax(RMin(trigger_size, RInt(Q(500))), RInt(Q(20))),
        max_visible_size |-> RMax(RMin(max_visible_size, RInt(Q(1000))), RInt(Q(50))),
        min_visible_size |-> RMax(RMin(min_visible_size, RInt(Q(1000))), RInt(Q(10))),
        volume_threshold |-> volume_threshold,
        avg_order_size |-> avg_order_size]

\* RealMBOIcebergDetector.get_dynamic_thresholds
get_dynamic_thresholds(d) ==
    LET avg_order_size == get_avg_order_size(d.market_metrics)
        volume_rate == get_volume_rate(d.market_metrics)
        percentile_size == RInt(get_percentile_order_size(d.market_metrics, 75))
        trigger_size == RMax(RMul(avg_order_size, trigger_size_percentage, 100),
                             RMul(percentile_size, 5, 10))
        max_visible_size == RMul(avg_order_size, max_visible_percentage, 100)
        min_visible_size == RMul(avg_order_size, min_visible_percentage, 100)
        volume_threshold == RMul(volume_rate, volume_threshold_percentage, 100)
    IN [trigger_size |-> RMax(RMin(trigger_size, RInt(Q(500))), RInt(Q(20))),
        max_visible_size |-> RMax(RMin(max_visible_size, RInt(Q(1000))), RInt(Q(50))),
        min_visible_size |-> RMax(RMin(min_visible_size, RInt(Q(100))), RInt(Q(10))),
        volume_threshold |-> volume_threshold,
        avg_order_size |-> avg_order_size]

\* RealMBOIcebergDetector.update_depth
update_depth(d, is_bid, price, size) ==
    LET side == IF is_bid THEN "bids" ELSE "asks"
        snap == [d.order_book_snapshot EXCEPT
                    ![side] = IF size > 0 THEN @ \cup {price} ELSE @ \ {price}]
    IN [d EXCEPT !.order_book_snapshot = snap,
                 !.best_bid = IF snap.bids # {} THEN SetMax(snap.bids) ELSE @,
                 !.best_ask = IF snap.asks # {} THEN SetMin(snap.asks) ELSE @]

\* RealMBOIcebergDetector._get_distance_from_best, as a rational number of pips
\* variant of _get_distance_from_best that measures from the other side's best
get_distance_from_best_opposite(d, price, is_bid) ==
    IF d.pips > 0 /\ is_bid /\ Truthy(d.best_ask)
        THEN Rat(Abs(price - d.best_ask), d.pips)
    ELSE IF d.pips > 0 /\ ~is_bid /\ Truthy(d.best_bid)
        THEN Rat(Abs(price - d.best_bid), d.pips)
    ELSE RInt(0)

get_distance_from_best(d, price, is_bid) ==
    IF d.pips > 0 /\ is_bid /\ Truthy(d.best_bid)
        THEN Rat(Abs(price - d.best_bid), d.pips)
    ELSE IF d.pips > 0 /\ ~is_bid /\ Truthy(d.best_ask)
        THEN Rat(Abs(price - d.best_ask), d.pips)
    ELSE RInt(0)

\* self.orders_by_price[price].append(order_id)
IndexAppend(idx, price, order_id) ==
    DictSet(idx, price,
            Append(IF price \in DOMAIN idx THEN idx[price] ELSE <<>>, order_id))

\* variant of IndexRemove that leaves an emptied level in the dictionary
IndexRemoveKeepEmpty(idx, price, order_id) ==
    IF price \in DOMAIN idx /\ InSeq(order_id, idx[price])
    THEN [idx EXCEPT ![price] = RemoveFirst(@, order_id)]
    ELSE idx

\* if order_id in orders_by_price[price]: remove it; delete the level if empty
IndexRemove(idx, price, order_id) ==
    IF price \in DOMAIN idx /\ InSeq(order_id, idx[price])
    THEN LET rest == RemoveFirst(idx[price], order_id)
         IN IF rest = <<>> THEN DictDel(idx, price) ELSE [idx EXCEPT ![price] = rest]
    ELSE idx

\* for price in order.price_history: remove the order id from that level
RECURSIVE IndexRemoveAll(_, _, _)
IndexRemoveAll(idx, prices, order_id) ==
    IF prices = <<>> THEN idx
    ELSE IndexRemoveAll(IndexRemove(idx, Head(prices), order_id), Tail(prices), order_id)

\* RealMBOIcebergDetector.process_new_order
\* variant of process_new_order without the upper size gate
process_new_order_unbounded(d, order_id, is_bid, price, size, timestamp) ==
    LET actual_size == Normalize(d, size)
        d1 == [d EXCEPT !.market_metrics = add_order(@, actual_size, timestamp)]
        thresholds == get_dynamic_thresholds(d1)
        iceberg_order == IcebergOrder(order_id, price, actual_size, is_bid, timestamp)
        distance_pips == get_distance_from_best(d1, price, is_bid)
    IN IF RGe(RInt(actual_size), thresholds.min_visible_size)
       THEN [d1 EXCEPT
               !.active_orders = DictSet(@, order_id, iceberg_order),
               !.sent[order_id] = NoSent,
               !.orders_by_price = IndexAppend(@, price, order_id),
               !.potential_icebergs =
                   IF /\ RGe(RInt(actual_size), thresholds.trigger_size)
                      /\ RLe(distance_pips, RInt(max_distance_pips))
                   THEN @ \cup {order_id} ELSE @]
       ELSE d1

\* variant of process_new_order without the min_visible_size test
process_new_order_admitting(d, order_id, is_bid, price, size, timestamp) ==
    LET actual_size == Normalize(d, size)
        d1 == [d EXCEPT !.market_metrics = add_order(@, actual_size, timestamp)]
        thresholds == get_dynamic_thresholds(d1)
        iceberg_order == IcebergOrder(order_id, price, actual_size, is_bid, timestamp)
        distance_pips == get_distance_from_best(d1, price, is_bid)
    IN [d1 EXCEPT
          !.active_orders = DictSet(@, order_id, iceberg_order),
          !.sent[order_id] = NoSent,
          !.orders_by_price = IndexAppend(@, price, order_id),
          !.potential_icebergs =
              IF /\ RGe(RInt(actual_size), thresholds.trigger_size)
                 /\ RLe(RInt(actual_size), thresholds.max_visible_size)
                 /\ RLe(distance_pips, RInt(max_distance_pips))
              THEN @ \cup {order_id} ELSE @]

\* variant of process_new_order that reads the thresholds before the order's
\* size enters the metrics
process_new_order_thresholds_first(d, order_id, is_bid, price, size, timestamp) ==
    LET actual_size == Normalize(d, size)
        d1 == [d EXCEPT !.market_metrics = add_order(@, actual_size, timestamp)]
        thresholds == get_dynamic_thresholds(d)
        iceberg_order == IcebergOrder(order_id, price, actual_size, is_bid, timestamp)
        distance_pips == get_distance_from_best(d1, price, is_bid)
    IN IF RGe(RInt(actual_size), thresholds.min_visible_size)
       THEN [d1 EXCEPT
               !.active_orders = DictSet(@, order_id, iceberg_order),
               !.sent[order_id] = NoSent,
               !.orders_by_price = IndexAppend(@, price, order_id),
               !.potential_icebergs =
                   IF /\ RGe(RInt(actual_size), thresholds.trigger_size)
                      /\ RLe(RInt(actual_size), thresholds.max_visible_size)
                      /\ RLe(distance_pips, RInt(max_distance_pips))
                   THEN @ \cup {order_id} ELSE @]
       ELSE d1

process_new_order(d, order_id, is_bid, price, size, timestamp) ==
    LET actual_size == Normalize(d, size)
        d1 == [d EXCEPT !.market_metrics = add_order(@, actual_size, timestamp)]
        thresholds == get_dynamic_thresholds(d1)
        iceberg_order == IcebergOrder(order_id, price, actual_size, is_bid, timestamp)
        distance_pips == get_distance_from_best(d1, price, is_bid)
    IN IF RGe(RInt(actual_size), thresholds.min_visible_size)
       THEN [d1 EXCEPT
               !.active_orders = DictSet(@, order_id, iceberg_order),
               !.sent[order_id] = NoSent,
               !.orders_by_price = IndexAppend(@, price, order_id),
               !.potential_icebergs =
                   IF /\ RGe(RInt(actual_size), thresholds.trigger_size)
                      /\ RLe(RInt(actual_size), thresholds.max_visible_size)
                      /\ RLe(distance_pips, RInt(max_distance_pips))
                   THEN @ \cup {order_id} ELSE @]
       ELSE d1

\* variant of _confirm_iceberg that leaves the reporting baseline alone
confirm_iceberg_without_baseline(d, order_id, reason, timestamp) ==
    LET o == [d.active_orders[order_id] EXCEPT
                 !.is_confirmed_iceberg = TRUE,
                 !.iceberg_start_time = timestamp]
        d1 == [d EXCEPT !.active_orders[order_id] = o,
                        !.confirmed_icebergs = @ \cup {order_id},
                        !.total_icebergs_detected = @ + 1]
    IN send_message(d1, "detections", o, reason)

\* RealMBOIcebergDetector._confirm_iceberg
confirm_iceberg(d, order_id, reason, timestamp) ==
    LET o == [d.active_orders[order_id] EXCEPT
                 !.is_confirmed_iceberg = TRUE,
                 !.iceberg_start_time = timestamp,
                 !.last_reported_filled = d.active_orders[order_id].total_filled]
        d1 == [d EXCEPT !.active_orders[order_id] = o,
                        !.confirmed_icebergs = @ \cup {order_id},
                        !.total_icebergs_detected = @ + 1]
    IN send_message(d1, "detections", o, reason)

(***************************************************************************)
(* _analyze_iceberg_pattern_percentage: the five patterns, in order.       *)
(* iceberg_score and execution_ratio are computed once, before pattern 1.  *)
(***************************************************************************)
Pattern1(d, order_id, iceberg_score, execution_ratio, timestamp) ==
    LET order == d.active_orders[order_id]
    IN IF /\ order.refill_count >= 1
          /\ ~order.is_confirmed_iceberg
          /\ RGe(iceberg_score, Rat(4, 10))
       THEN confirm_iceberg(d, order_id, "refill pattern", timestamp)
       ELSE d

\* variant of Pattern2 whose size comparison is the other way round
Pattern2Flipped(d, order_id, iceberg_score, execution_ratio, timestamp) ==
    LET order == d.active_orders[order_id]
    IN IF /\ RGe(execution_ratio, RInt(alert_execution_ratio_threshold))
          /\ RLe(RInt(order.current_size), RMul(RInt(order.min_size_seen), 8, 10))
          /\ ~order.is_confirmed_iceberg
       THEN confirm_iceberg(d, order_id, "high execution ratio", timestamp)
       ELSE d

Pattern2(d, order_id, iceberg_score, execution_ratio, timestamp) ==
    LET order == d.active_orders[order_id]
    IN IF /\ RGe(execution_ratio, RInt(alert_execution_ratio_threshold))
          /\ RGe(RInt(order.current_size), RMul(RInt(order.min_size_seen), 8, 10))
          /\ ~order.is_confirmed_iceberg
       THEN confirm_iceberg(d, order_id, "high execution ratio", timestamp)
       ELSE d

\* variant of Pattern3 that does not test is_confirmed_iceberg
Pattern3Unguarded(d, order_id, iceberg_score, execution_ratio, timestamp) ==
    LET order == d.active_orders[order_id]
    IN IF /\ order.total_filled >= Q(alert_total_filled_threshold)
          /\ order.size_decrease_count >= 2
       THEN confirm_iceberg(d, order_id, "large volume", timestamp)
       ELSE d

Pattern3(d, order_id, iceberg_score, execution_ratio, timestamp) ==
    LET order == d.active_orders[order_id]
    IN IF /\ order.total_filled >= Q(alert_total_filled_threshold)
          /\ order.size_decrease_count >= 2
          /\ ~order.is_confirmed_iceberg
       THEN confirm_iceberg(d, order_id, "large volume", timestamp)
       ELSE d

Pattern4(d, order_id, iceberg_score, execution_ratio, timestamp) ==
    LET order == d.active_orders[order_id]
    IN IF /\ order.total_filled >= Q(alert_total_filled_threshold)
          /\ order.size_decrease_count >= 3
          /\ ~order.is_confirmed_iceberg
       THEN confirm_iceberg(d, order_id, "with partials", timestamp)
       ELSE d

Pattern5(d, order_id, iceberg_score, execution_ratio, timestamp) ==
    LET order == d.active_orders[order_id]
    IN IF /\ RGe(execution_ratio, RInt(alert_execution_ratio_threshold))
          /\ RGe(RInt(order.current_size), RMul(RInt(order.initial_size), 6, 10))
          /\ ~order.is_confirmed_iceberg
       THEN confirm_iceberg(d, order_id, "hidden liquidity", timestamp)
       ELSE d

\* the alert admission test of _analyze_iceberg_pattern_percentage and of
\* process_order_execution
should_alert(order) ==
    \/ RGe(get_execution_ratio(order), RInt(alert_execution_ratio_threshold))
    \/ order.total_filled >= Q(alert_total_filled_threshold)

\* variant of _analyze_iceberg_pattern_percentage that looks at potential
\* candidates only
analyze_iceberg_pattern_percentage_candidates(d, order_id, timestamp) ==
    LET order == d.active_orders[order_id]
        s == get_iceberg_score(order)
        r == get_execution_ratio(order)
    IN IF ~should_alert(order) \/ order_id \notin d.potential_icebergs THEN d
       ELSE Pattern5(Pattern4(Pattern3(Pattern2(Pattern1(
                d, order_id, s, r, timestamp), order_id, s, r, timestamp),
                order_id, s, r, timestamp), order_id, s, r, timestamp),
                order_id, s, r, timestamp)

\* RealMBOIcebergDetector._analyze_iceberg_pattern_percentage
analyze_iceberg_pattern_percentage(d, order_id, timestamp) ==
    LET order == d.active_orders[order_id]
        s == get_iceberg_score(order)
        r == get_execution_ratio(order)
    IN IF ~should_alert(order) THEN d
       ELSE Pattern5(Pattern4(Pattern3(Pattern2(Pattern1(
                d, order_id, s, r, timestamp), order_id, s, r, timestamp),
                order_id, s, r, timestamp), order_id, s, r, timestamp),
                order_id, s, r, timestamp)

\* variant of process_replace_order that leaves the id at the old price level
process_replace_order_copying(d, order_id, price, size, timestamp) ==
    IF order_id \notin DOMAIN d.active_orders THEN d
    ELSE
    LET order == d.active_orders[order_id]
        actual_size == Normalize(d, size)
        old_price == order.current_price
        price_changed == price # old_price
        idx == IF price_changed
               THEN IndexAppend(d.orders_by_price, price, order_id)
               ELSE d.orders_by_price
        d1 == [d EXCEPT
                 !.orders_by_price = idx,
                 !.active_orders[order_id] =
                     add_replace_event(order, actual_size, timestamp,
                                       IF price_changed THEN price ELSE None)]
    IN analyze_iceberg_pattern_percentage(d1, order_id, timestamp)

\* variant of process_replace_order that tracks an unknown id as a new ask
\* order
process_replace_order_upserting(d, order_id, price, size, timestamp) ==
    IF order_id \notin DOMAIN d.active_orders
    THEN process_new_order(d, order_id, FALSE, price, size, timestamp)
    ELSE
    LET order == d.active_orders[order_id]
        actual_size == Normalize(d, size)
        old_price == order.current_price
        price_changed == price # old_price
        idx == IF price_changed
               THEN IndexAppend(IndexRemove(d.orders_by_price, old_price, order_id),
                                price, order_id)
               ELSE d.orders_by_price
        d1 == [d EXCEPT
                 !.orders_by_price = idx,
                 !.active_orders[order_id] =
                     add_replace_event(order, actual_size, timestamp,
                                       IF price_changed THEN price ELSE None)]
    IN analyze_iceberg_pattern_percentage(d1, order_id, timestamp)

\* variant of process_replace_order that reports the progress of a confirmed
\* order after the fill its size decrease implies
process_replace_order_reporting(d, order_id, price, size, timestamp) ==
    IF order_id \notin DOMAIN d.active_orders THEN d
    ELSE
    LET order == d.active_orders[order_id]
        actual_size == Normalize(d, size)
        old_price == order.current_price
        price_changed == price # old_price
        idx == IF price_changed
               THEN IndexAppend(IndexRemove(d.orders_by_price, old_price, order_id),
                                price, order_id)
               ELSE d.orders_by_price
        d1 == [d EXCEPT
                 !.orders_by_price = idx,
                 !.active_orders[order_id] =
                     add_replace_event(order, actual_size, timestamp,
                                       IF price_changed THEN price ELSE None)]
        o == d1.active_orders[order_id]
        d2 == IF /\ order.is_confirmed_iceberg
                 /\ actual_size < order.current_size
                 /\ RGe(o.execution_percentage, execution_threshold)
                 /\ o.total_filled - o.last_reported_filled >= Q(progress_delta)
              THEN [send_message(d1, "updates", o, "")
                       EXCEPT !.active_orders[order_id].last_reported_filled =
                                  o.total_filled]
              ELSE d1
    IN analyze_iceberg_pattern_percentage(d2, order_id, timestamp)

\* RealMBOIcebergDetector.process_replace_order
process_replace_order(d, order_id, price, size, timestamp) ==
    IF order_id \notin DOMAIN d.active_orders THEN d
    ELSE
    LET order == d.active_orders[order_id]
        actual_size == Normalize(d, size)
        old_price == order.current_price
        price_changed == price # old_price
        idx == IF price_changed
               THEN IndexAppend(IndexRemove(d.orders_by_price, old_price, order_id),
                                price, order_id)
               ELSE d.orders_by_price
        d1 == [d EXCEPT
                 !.orders_by_price = idx,
                 !.active_orders[order_id] =
                     add_replace_event(order, actual_size, timestamp,
                                       IF price_changed THEN price ELSE None)]
    IN analyze_iceberg_pattern_percentage(d1, order_id, timestamp)

\* variant of _handle_iceberg_near_completion without the volume throttle
handle_iceberg_near_completion_unthrottled(d, order_id) ==
    LET order == d.active_orders[order_id]
    IN IF /\ order.is_confirmed_iceberg
          /\ RGe(order.execution_percentage, execution_threshold)
       THEN [send_message(d, "updates", order, "")
                EXCEPT !.active_orders[order_id].last_reported_filled = order.total_filled]
       ELSE d

\* variant of _handle_iceberg_near_completion that asks for more than the delta
handle_iceberg_near_completion_strict(d, order_id) ==
    LET order == d.active_orders[order_id]
    IN IF /\ order.is_confirmed_iceberg
          /\ RGe(order.execution_percentage, execution_threshold)
          /\ order.total_filled - order.last_reported_filled > Q(progress_delta)
       THEN [send_message(d, "updates", order, "")
                EXCEPT !.active_orders[order_id].last_reported_filled = order.total_filled]
       ELSE d

\* RealMBOIcebergDetector._handle_iceberg_near_completion
handle_iceberg_near_completion(d, order_id) ==
    LET order == d.active_orders[order_id]
    IN IF /\ order.is_confirmed_iceberg
          /\ RGe(order.execution_percentage, execution_threshold)
          /\ order.total_filled - order.last_reported_filled >= Q(progress_delta)
       THEN [send_message(d, "updates", order, "")
                EXCEPT !.active_orders[order_id].last_reported_filled = order.total_filled]
       ELSE d

\* variant of process_order_execution that runs the pattern analysis on an
\* order not yet confirmed
process_order_execution_analyzing(d, order_id, executed_size, timestamp) ==
    IF order_id \notin DOMAIN d.active_orders THEN d
    ELSE
    LET order == add_execution(d.active_orders[order_id], executed_size, timestamp)
        d1 == [d EXCEPT !.active_orders[order_id] = order]
    IN IF ~order.is_confirmed_iceberg
       THEN analyze_iceberg_pattern_percentage(d1, order_id, timestamp)
       ELSE IF /\ should_alert(order)
               /\ RGe(order.execution_percentage, execution_threshold)
            THEN handle_iceberg_near_completion(d1, order_id)
            ELSE d1

\* RealMBOIcebergDetector.process_order_execution
process_order_execution(d, order_id, executed_size, timestamp) ==
    IF order_id \notin DOMAIN d.active_orders THEN d
    ELSE
    LET order == add_execution(d.active_orders[order_id], executed_size, timestamp)
        d1 == [d EXCEPT !.active_orders[order_id] = order]
    IN IF /\ order.is_confirmed_iceberg
          /\ should_alert(order)
          /\ RGe(order.execution_percentage, execution_threshold)
       THEN handle_iceberg_near_completion(d1, order_id)
       ELSE d1

\* RealMBOIcebergDetector._cleanup_order
cleanup_order(d, order_id) ==
    LET d1 == IF order_id \in DOMAIN d.active_orders
              THEN [d EXCEPT
                      !.orders_by_price =
                          IndexRemoveAll(@, d.active_orders[order_id].price_history,
                                         order_id),
                      !.active_orders = DictDel(@, order_id)]
              ELSE d
    IN [d1 EXCEPT !.potential_icebergs = @ \ {order_id},
                  !.confirmed_icebergs = @ \ {order_id}]

\* variant of process_cancel_order that does not look at is_confirmed_iceberg
process_cancel_order_completing(d, order_id, timestamp) ==
    IF order_id \notin DOMAIN d.active_orders THEN d
    ELSE
    LET order == d.active_orders[order_id]
        d1 == [d EXCEPT !.orders_by_price =
                            IndexRemoveAll(@, order.price_history, order_id)]
        done == [order EXCEPT !.completion_time = timestamp]
        d2 == [send_message(
                   [d1 EXCEPT !.active_orders[order_id] = done,
                              !.completed_icebergs = DictSet(@, order_id, done)],
                   "full_executions", done, "")
                  EXCEPT !.total_icebergs_completed = @ + 1]
    IN cleanup_order(d2, order_id)

process_cancel_order_aborting(d, order_id, timestamp) ==
    IF order_id \notin DOMAIN d.active_orders THEN d
    ELSE
    LET order == d.active_orders[order_id]
        d1 == [d EXCEPT !.orders_by_price =
                            IndexRemoveAll(@, order.price_history, order_id)]
        done == [order EXCEPT !.completion_time = timestamp]
        told == send_message(
                    [d1 EXCEPT !.active_orders[order_id] = done,
                               !.completed_icebergs = DictSet(@, order_id, done)],
                    "full_executions", done, "")
    IN IF order.is_confirmed_iceberg
       THEN IF d.delivery
            THEN cleanup_order([told EXCEPT !.total_icebergs_completed = @ + 1],
                               order_id)
            ELSE told
       ELSE cleanup_order(d1, order_id)

\* variant of process_cancel_order that does not call _cleanup_order
process_cancel_order_keeping_order(d, order_id, timestamp) ==
    IF order_id \notin DOMAIN d.active_orders THEN d
    ELSE
    LET order == d.active_orders[order_id]
        d1 == [d EXCEPT !.orders_by_price =
                            IndexRemoveAll(@, order.price_history, order_id)]
        done == [order EXCEPT !.completion_time = timestamp]
    IN IF order.is_confirmed_iceberg
       THEN [send_message(
                 [d1 EXCEPT !.active_orders[order_id] = done,
                            !.completed_icebergs = DictSet(@, order_id, done)],
                 "full_executions", done, "")
                EXCEPT !.total_icebergs_completed = @ + 1]
       ELSE d1

\* RealMBOIcebergDetector.process_cancel_order
process_cancel_order(d, order_id, timestamp) ==
    IF order_id \notin DOMAIN d.active_orders THEN d
    ELSE
    LET order == d.active_orders[order_id]
        d1 == [d EXCEPT !.orders_by_price =
                            IndexRemoveAll(@, order.price_history, order_id)]
        done == [order EXCEPT !.completion_time = timestamp]
        d2 == IF order.is_confirmed_iceberg
              THEN [send_message(
                        [d1 EXCEPT !.active_orders[order_id] = done,
                                   !.completed_icebergs = DictSet(@, order_id, done)],
                        "full_executions", done, "")
                       EXCEPT !.total_icebergs_completed = @ + 1]
              ELSE d1
    IN cleanup_order(d2, order_id)

\* for order_id in expired_orders: self._cleanup_order(order_id)
RECURSIVE CleanupAll(_, _)
CleanupAll(d, ids) ==
    IF ids = {} THEN d
    ELSE LET order_id == SetMin(ids)
         IN CleanupAll(cleanup_order(d, order_id), ids \ {order_id})

\* variant of cleanup_old_orders that also expires an order aged exactly
\* time_window
cleanup_old_orders_inclusive(d, current_time) ==
    LET expired_orders ==
            {order_id \in DOMAIN d.active_orders :
                current_time - d.active_orders[order_id].last_update >= time_window}
    IN CleanupAll(d, expired_orders)

\* RealMBOIcebergDetector.cleanup_old_orders
cleanup_old_orders(d, current_time) ==
    LET expired_orders ==
            {order_id \in DOMAIN d.active_orders :
                current_time - d.active_orders[order_id].last_update > time_window}
    IN CleanupAll(d, expired_orders)

\* for order in potential_orders: apply its share of the trade
RECURSIVE ExecuteAll(_, _, _, _)
ExecuteAll(d, potential_orders, execution_per_order, timestamp) ==
    IF potential_orders = <<>> THEN d
    ELSE LET order_id == Head(potential_orders)
             actual_execution ==
                 Min2(execution_per_order, d.active_orders[order_id].current_size)
             d1 == IF actual_execution > 0
                   THEN process_order_execution(d, order_id, actual_execution, timestamp)
                   ELSE d
         IN ExecuteAll(d1, Tail(potential_orders), execution_per_order, timestamp)

\* variant of _match_trade_to_orders_v2 that takes the orders of the trade's
\* own side
match_trade_to_orders_v2_same_side(d, trade_price, trade_size, trade_is_bid, timestamp) ==
    IF trade_price \notin DOMAIN d.orders_by_price THEN d
    ELSE
    LET Same(order_id) ==
            /\ order_id \in DOMAIN d.active_orders
            /\ d.active_orders[order_id].is_bid = trade_is_bid
        potential_orders == SelectSeq(d.orders_by_price[trade_price], Same)
    IN IF potential_orders = <<>> THEN d
       ELSE ExecuteAll(d, potential_orders,
                       trade_size \div Len(potential_orders), timestamp)

\* RealMBOIcebergDetector._match_trade_to_orders_v2
match_trade_to_orders_v2(d, trade_price, trade_size, trade_is_bid, timestamp) ==
    IF trade_price \notin DOMAIN d.orders_by_price THEN d
    ELSE
    LET Opposite(order_id) ==
            /\ order_id \in DOMAIN d.active_orders
            /\ d.active_orders[order_id].is_bid # trade_is_bid
        potential_orders == SelectSeq(d.orders_by_price[trade_price], Opposite)
    IN IF potential_orders = <<>> THEN d
       ELSE ExecuteAll(d, potential_orders,
                       trade_size \div Len(potential_orders), timestamp)

\* RealMBOIcebergDetector.add_trade (recent_trades is written and never read)
add_trade(d, price, size, is_bid, timestamp) ==
    LET m1 == metrics_add_trade(d.market_metrics, size, timestamp)
        volume == d.recent_volume + size
        sample == timestamp - d.last_volume_sample >= volume_sample_interval
        d1 == [d EXCEPT
                 !.market_metrics = IF sample THEN add_volume_sample(m1, volume) ELSE m1,
                 !.recent_volume = IF sample THEN 0 ELSE volume,
                 !.last_volume_sample = IF sample THEN timestamp ELSE @]
    IN match_trade_to_orders_v2(d1, price, size, is_bid, timestamp)

\* handle_trades
handle_trades(d, price, size, is_bid, aggressor_order_id, passive_order_id, timestamp) ==
    LET actual_size == Normalize(d, size)
        d1 == add_trade(d, price, actual_size, is_bid, timestamp)
        d2 == IF Truthy(passive_order_id) /\ passive_order_id \in DOMAIN d1.active_orders
              THEN process_order_execution(d1, passive_order_id, actual_size, timestamp)
              ELSE d1
    IN IF Truthy(aggressor_order_id) /\ aggressor_order_id \in DOMAIN d2.active_orders
       THEN process_order_execution(d2, aggressor_order_id, actual_size, timestamp)
       ELSE d2

(***************************************************************************)
(* The engine after handle_subscribe_instrument, and one action per feed   *)
(* handler.  Every handler runs to completion before the next event.       *)
(***************************************************************************)
StartTime == time_window

Init ==
    /\ now = StartTime
    /\ size_multiplier = 2
    /\ pips = 1
    /\ market_metrics = MarketMetrics
    /\ active_orders = <<>>
    /\ potential_icebergs = {}
    /\ confirmed_icebergs = {}
    /\ completed_icebergs = <<>>
    /\ orders_by_price = <<>>
    /\ order_book_snapshot = [bids |-> {}, asks |-> {}]
    /\ best_bid = None
    /\ best_ask = None
    /\ total_icebergs_detected = 0
    /\ total_icebergs_completed = 0
    /\ recent_volume = 0
    /\ last_volume_sample = StartTime
    /\ outbox = <<>>
    /\ sent = [i \in OrderIds |-> NoSent]
    /\ replaces = 0
    /\ delivery = TRUE

\* handle_mbo_event, event_type BID_NEW / ASK_NEW
NewOrder(order_id, is_bid, price, size) ==
    /\ Commit(process_new_order(Detector, order_id, is_bid, price, size, now))
    /\ UNCHANGED <<now, replaces, delivery>>

\* handle_mbo_event, event_type REPLACE
Replace(order_id, price, size) ==
    /\ Commit(process_replace_order(Detector, order_id, price, size, now))
    /\ replaces' = replaces + 1
    /\ UNCHANGED <<now, delivery>>

\* handle_mbo_event, event_type CANCEL
Cancel(order_id) ==
    /\ Commit(process_cancel_order(Detector, order_id, now))
    /\ UNCHANGED <<now, replaces, delivery>>

\* handle_trades
Trade(price, size, is_bid, aggressor_order_id, passive_order_id) ==
    /\ Commit(handle_trades(Detector, price, size, is_bid,
                            aggressor_order_id, passive_order_id, now))
    /\ UNCHANGED <<now, replaces, delivery>>

\* handle_depth_info
Depth(is_bid, price, size) ==
    /\ Commit(update_depth(Detector, is_bid, price, size))
    /\ UNCHANGED <<now, replaces, delivery>>

\* on_interval
Interval ==
    /\ Commit(cleanup_old_orders(Detector, now))
    /\ UNCHANGED <<now, replaces, delivery>>

\* the clock advances by dt seconds between two events
Tick(dt) ==
    /\ now' = now + dt
    /\ UNCHANGED <<size_multiplier, pips, market_metrics, active_orders,
                   potential_icebergs, confirmed_icebergs, completed_icebergs,
                   orders_by_price, order_book_snapshot, best_bid, best_ask,
                   total_icebergs_detected, total_icebergs_completed,
                   recent_volume, last_volume_sample, outbox, sent, replaces,
                   delivery>>

\* the transport to the chat goes up or down between two events
Transport(up) ==
    /\ delivery' = up
    /\ UNCHANGED <<now, size_multiplier, pips, market_metrics, active_orders,
                   potential_icebergs, confirmed_icebergs, completed_icebergs,
                   orders_by_price, order_book_snapshot, best_bid, best_ask,
                   total_icebergs_detected, total_icebergs_completed,
                   recent_volume, last_volume_sample, outbox, sent, replaces>>

(***************************************************************************)
(* The two-order feed.  Identifiers are not reused while active (spec.md   *)
(* section 3); the clock jumps once, by the idle window or one second more.*)
(***************************************************************************)
\* <<aggressor_order_id, passive_order_id>> of a trade event
TradeOrderIds ==
    {<<None, None>>, <<None, SetMin(OrderIds)>>, <<SetMax(OrderIds), None>>}

Next ==
    \/ \E order_id \in OrderIds \ DOMAIN active_orders, is_bid \in BOOLEAN,
          price \in Prices, size \in NewRawSizes :
            /\ Len(market_metrics.order_sizes) < MaxNewOrders
            /\ NewOrder(order_id, is_bid, price, size)
    \/ \E order_id \in OrderIds, price \in Prices, size \in BookReplaceRawSizes :
            /\ replaces < MaxReplaces
            /\ Replace(order_id, price, size)
    \/ \E order_id \in OrderIds : Cancel(order_id)
    \/ \E price \in Prices, size \in TradeRawSizes, ids \in TradeOrderIds :
            /\ Len(market_metrics.trade_sizes) < MaxTrades
            /\ Trade(price, size, TRUE, ids[1], ids[2])
    \/ \E price \in DepthPrices :
            /\ market_metrics.order_sizes = <<>>
            /\ Depth(TRUE, price, 1)
    \/ Interval
    \/ \E dt \in {time_window, time_window + 1} :
            /\ now = StartTime
            /\ Tick(dt)

Spec == Init /\ [][Next]_vars

(***************************************************************************)
(* The feed that follows one resting ask order through replaces, trades    *)
(* that hit it, confirmation, progress and completion.                     *)
(***************************************************************************)
DeepId == SetMin(OrderIds)
DeepPrice == SetMin(Prices)
DeepRawSize == SetMax(NewRawSizes)

NextDeep ==
    \/ /\ DeepId \notin DOMAIN active_orders
       /\ Len(market_metrics.order_sizes) < DeepNewOrders
       /\ NewOrder(DeepId, FALSE, DeepPrice, DeepRawSize)
    \/ \E price \in Prices, size \in ReplaceRawSizes :
            /\ replaces < DeepReplaces
            /\ Replace(DeepId, price, size)
    \/ Cancel(DeepId)
    \/ \E passive_order_id \in {None, DeepId} :
            /\ Len(market_metrics.trade_sizes) < DeepTrades
            /\ Trade(DeepPrice, SetMax(TradeRawSizes), TRUE, None, passive_order_id)
    \/ Interval
    \/ /\ now = StartTime
       /\ Tick(time_window + 1)

SpecDeep == Init /\ [][NextDeep]_vars

(***************************************************************************)
(* The one-order feed over a transport to the chat that can fail at any    *)
(* time.                                                                   *)
(***************************************************************************)
NextLink ==
    \/ NextDeep
    \/ \E up \in BOOLEAN : Transport(up)

SpecLink == Init /\ [][NextLink]_vars

(***************************************************************************)
(* The one-order feed with malformed events among the well-formed ones:    *)
(* new orders, replaces and trades that carry a negative size.             *)
(***************************************************************************)
NextMalformed ==
    \/ \E size \in {DeepRawSize} \cup NegativeRawSizes :
            /\ DeepId \notin DOMAIN active_orders
            /\ Len(market_metrics.order_sizes) < MaxNewOrders
            /\ NewOrder(DeepId, FALSE, DeepPrice, size)
    \/ \E price \in Prices, size \in BookReplaceRawSizes \cup NegativeRawSizes :
            /\ replaces < MaxReplaces
            /\ Replace(DeepId, price, size)
    \/ Cancel(DeepId)
    \/ \E size \in TradeRawSizes \cup NegativeRawSizes,
          passive_order_id \in {None, DeepId} :
            /\ Len(market_metrics.trade_sizes) < MaxTrades
            /\ Trade(DeepPrice, size, TRUE, None, passive_order_id)

SpecMalformed == Init /\ [][NextMalformed]_vars

(***************************************************************************)
(* A freshly subscribed instrument whose size multiplier is 1, and the     *)
(* feed of one order on it: created on either side, replaced at its price, *)
(* named by a trade, cancelled.                                            *)
(***************************************************************************)
InitUnit ==
    /\ now = StartTime
    /\ size_multiplier = 1
    /\ pips = 1
    /\ market_metrics = MarketMetrics
    /\ active_orders = <<>>
    /\ potential_icebergs = {}
    /\ confirmed_icebergs = {}
    /\ completed_icebergs = <<>>
    /\ orders_by_price = <<>>
    /\ order_book_snapshot = [bids |-> {}, asks |-> {}]
    /\ best_bid = None
    /\ best_ask = None
    /\ total_icebergs_detected = 0
    /\ total_icebergs_completed = 0
    /\ recent_volume = 0
    /\ last_volume_sample = StartTime
    /\ outbox = <<>>
    /\ sent = [i \in OrderIds |-> NoSent]
    /\ replaces = 0
    /\ delivery = TRUE

NextUnit ==
    \/ \E is_bid \in BOOLEAN, size \in UnitNewRawSizes :
            /\ DeepId \notin DOMAIN active_orders
            /\ Len(market_metrics.order_sizes) < UnitNewOrders
            /\ NewOrder(DeepId, is_bid, DeepPrice, size)
    \/ \E size \in UnitReplaceRawSizes :
            /\ replaces < UnitReplaces
            /\ Replace(DeepId, DeepPrice, size)
    \/ Cancel(DeepId)
    \/ \E size \in UnitTradeRawSizes, is_bid \in BOOLEAN :
            /\ Len(market_metrics.trade_sizes) < UnitTrades
            /\ Trade(DeepPrice, size, is_bid, None, DeepId)

SpecUnit == InitUnit /\ [][NextUnit]_vars

(***************************************************************************)
(* The feed that takes one ask order of size 50 to confirmation by         *)
(* replaces and then fills it by trades of size 5 that name it as their    *)
(* passive side.  A trade on the order's own side reaches the order once   *)
(* (the direct execution); a trade on the opposite side reaches it twice   *)
(* (the match at its price level, then the direct execution).              *)
(***************************************************************************)
NextProgress ==
    \/ \E size \in ProgressNewRawSizes :
            /\ market_metrics.order_sizes = <<>>
            /\ NewOrder(DeepId, FALSE, DeepPrice, size)
    \/ \E size \in ProgressReplaceRawSizes :
            /\ replaces < ProgressReplaces
            /\ DeepId \notin confirmed_icebergs
            /\ Replace(DeepId, DeepPrice, size)
    \/ Cancel(DeepId)
    \/ \E size \in UnitTradeRawSizes, is_bid \in BOOLEAN :
            /\ Len(market_metrics.trade_sizes) < ProgressTrades
            /\ DeepId \in confirmed_icebergs
            /\ Trade(DeepPrice, size, is_bid, None, DeepId)

SpecProgress == InitUnit /\ [][NextProgress]_vars

(***************************************************************************)
(* The admission feed: instruments with size multiplier 0, 1 or 2, depth   *)
(* levels set and cleared on both sides, and new orders of both sides that *)
(* are cancelled again.                                                    *)
(***************************************************************************)
InitAdmission ==
    /\ now = StartTime
    /\ size_multiplier \in AdmissionMultipliers
    /\ pips = 1
    /\ market_metrics = MarketMetrics
    /\ active_orders = <<>>
    /\ potential_icebergs = {}
    /\ confirmed_icebergs = {}
    /\ completed_icebergs = <<>>
    /\ orders_by_price = <<>>
    /\ order_book_snapshot = [bids |-> {}, asks |-> {}]
    /\ best_bid = None
    /\ best_ask = None
    /\ total_icebergs_detected = 0
    /\ total_icebergs_completed = 0
    /\ recent_volume = 0
    /\ last_volume_sample = StartTime
    /\ outbox = <<>>
    /\ sent = [i \in OrderIds |-> NoSent]
    /\ replaces = 0
    /\ delivery = TRUE

NextAdmission ==
    \/ \E order_id \in OrderIds \ DOMAIN active_orders, is_bid \in BOOLEAN,
          price \in Prices, size \in AdmissionRawSizes :
            /\ Len(market_metrics.order_sizes) < AdmissionNewOrders
            /\ NewOrder(order_id, is_bid, price, size)
    \/ \E is_bid \in BOOLEAN, price \in AdmissionDepthPrices, size \in {0, 1} :
            Depth(is_bid, price, size)
    \/ \E order_id \in OrderIds : Cancel(order_id)

SpecAdmission == InitAdmission /\ [][NextAdmission]_vars

(***************************************************************************)
(* The metrics feed: orders of very different sizes created and cancelled  *)
(* under one id, trades at a price where no order rests, and a clock that  *)
(* advances by the volume sample interval, so that the cached aggregates   *)
(* are recomputed, go stale, and volume samples are taken.                 *)
(***************************************************************************)
NextMetrics ==
    \/ \E size \in MetricsNewRawSizes :
            /\ DeepId \notin DOMAIN active_orders
            /\ Len(market_metrics.order_sizes) < MetricsNewOrders
            /\ NewOrder(DeepId, FALSE, DeepPrice, size)
    \/ Cancel(DeepId)
    \/ \E size \in MetricsTradeRawSizes :
            /\ Len(market_metrics.trade_sizes) < MetricsTrades
            /\ Trade(SetMax(Prices), size, TRUE, None, None)
    \/ /\ now < StartTime + MetricsTicks * volume_sample_interval
       /\ Tick(volume_sample_interval)

SpecMetrics == InitUnit /\ [][NextMetrics]_vars

(***************************************************************************)
(* The percentile feed.  The engine is fresh, or it has recorded n orders  *)
(* of sizes 11, 12, ..., 10 + n (all since cancelled) and recomputed its   *)
(* aggregates with the last of them; orders of one id follow.              *)
(***************************************************************************)
WarmMetrics(n) ==
    [update_metrics([MarketMetrics EXCEPT !.order_sizes = [i \in 1..n |-> Q(10 + i)]])
        EXCEPT !.last_update = StartTime]

\* the entries of the window that the feed's orders put there
FedOrders(w) ==
    Cardinality({i \in 1..Len(w) : w[i] \in {Q(size) : size \in PercentileRawSizes}})

InitPercentile ==
    /\ now = StartTime
    /\ size_multiplier = 1
    /\ pips = 1
    /\ market_metrics \in {MarketMetrics} \cup {WarmMetrics(n) : n \in WarmLens}
    /\ active_orders = <<>>
    /\ potential_icebergs = {}
    /\ confirmed_icebergs = {}
    /\ completed_icebergs = <<>>
    /\ orders_by_price = <<>>
    /\ order_book_snapshot = [bids |-> {}, asks |-> {}]
    /\ best_bid = None
    /\ best_ask = None
    /\ total_icebergs_detected = 0
    /\ total_icebergs_completed = 0
    /\ recent_volume = 0
    /\ last_volume_sample = StartTime
    /\ outbox = <<>>
    /\ sent = [i \in OrderIds |-> NoSent]
    /\ replaces = 0
    /\ delivery = TRUE

NextPercentile ==
    \/ \E size \in PercentileRawSizes :
            /\ DeepId \notin DOMAIN active_orders
            /\ FedOrders(market_metrics.order_sizes) < PercentileNewOrders
            /\ NewOrder(DeepId, FALSE, DeepPrice, size)
    \/ Cancel(DeepId)

SpecPercentile == InitPercentile /\ [][NextPercentile]_vars

(***************************************************************************)
(* The rules feed: one ask order of 40, replaced between 10 and 40 up to   *)
(* five times and hit by up to three trades of 40 that name it or not, so  *)
(* that it meets the rules with three size decreases and with an execution *)
(* ratio of 5 and more while still unconfirmed.                            *)
(***************************************************************************)
NextRules ==
    \/ \E size \in RulesNewRawSizes :
            /\ market_metrics.order_sizes = <<>>
            /\ NewOrder(DeepId, FALSE, DeepPrice, size)
    \/ \E size \in RulesReplaceRawSizes :
            /\ replaces < RulesReplaces
            /\ Replace(DeepId, DeepPrice, size)
    \/ Cancel(DeepId)
    \/ \E size \in RulesTradeRawSizes, passive_order_id \in {None, DeepId} :
            /\ Len(market_metrics.trade_sizes) < RulesTrades
            /\ Trade(DeepPrice, size, TRUE, None, passive_order_id)

SpecRules == InitUnit /\ [][NextRules]_vars

(***************************************************************************)
(* The feed that repeats an identifier: new-order events for one id arrive *)
(* whether or not the id is active, at either price; the order is          *)
(* replaced, hit by a trade that names it, and cancelled.                  *)
(***************************************************************************)
NextReuse ==
    \/ \E is_bid \in BOOLEAN, price \in Prices :
            /\ Len(market_metrics.order_sizes) < ReuseNewOrders
            /\ NewOrder(DeepId, is_bid, price, DeepRawSize)
    \/ \E price \in Prices, size \in ReplaceRawSizes :
            /\ replaces < ReuseReplaces
            /\ Replace(DeepId, price, size)
    \/ Cancel(DeepId)
    \/ /\ Len(market_metrics.trade_sizes) < ReuseTrades
       /\ Trade(DeepPrice, SetMax(TradeRawSizes), TRUE, None, DeepId)

SpecReuse == Init /\ [][NextReuse]_vars

(***************************************************************************)
(* The enriched variant (icev3.py).  Its detector keeps active_orders,     *)
(* confirmed_icebergs, orders_by_price, size_multiplier and pips; the      *)
(* other variables are not part of it and stay as they are.  Its           *)
(* IcebergOrder has the two role counters active_filled and passive_filled *)
(* and keeps replace_events as a list, of which the model keeps the        *)
(* length.                                                                 *)
(***************************************************************************)
\* RealMBOIcebergDetector.__init__ of icev3.py
v3_alert_execution_ratio_threshold == 40
v3_alert_total_filled_threshold == 80
\* process_order_execution of icev3.py: filled volume between two updates
v3_progress_delta == 25

\* class IcebergOrder of icev3.py
v3_IcebergOrder(order_id, price, initial_size, is_bid, timestamp) ==
    [order_id |-> order_id,
     initial_size |-> initial_size,
     current_size |-> initial_size,
     max_visible_size |-> initial_size,
     is_bid |-> is_bid,
     last_update |-> timestamp,
     last_reported_filled |-> 0,
     price_history |-> <<price>>,
     current_price |-> price,
     price_changes |-> 0,
     total_filled |-> 0,
     active_filled |-> 0,
     passive_filled |-> 0,
     refill_count |-> 0,
     size_decrease_count |-> 0,
     replace_events |-> 0,
     is_confirmed_iceberg |-> FALSE,
     iceberg_start_time |-> None,
     completion_time |-> None,
     min_size_seen |-> initial_size,
     execution_percentage |-> RInt(0)]

\* variant of icev3's add_replace_event that books a size decrease as a fill
v3_add_replace_event_filling(o, new_size, timestamp, new_price) ==
    LET old_size == o.current_size
        old_price == o.current_price
        size_change == new_size - old_size
        moved == new_price # None /\ new_price # old_price
        o1 == IF moved
              THEN [o EXCEPT !.current_price = new_price,
                             !.price_history =
                                 IF InSeq(new_price, @) THEN @ ELSE Append(@, new_price),
                             !.price_changes = @ + 1]
              ELSE o
        o2 == [o1 EXCEPT !.replace_events = @ + 1]
        o3 == IF size_change < 0
              THEN [o2 EXCEPT !.size_decrease_count = @ + 1,
                              !.total_filled = @ - size_change]
              ELSE o2
        o4 == [o3 EXCEPT !.min_size_seen = IF new_size < @ THEN new_size ELSE @,
                         !.max_visible_size = IF new_size > @ THEN new_size ELSE @]
        o5 == IF size_change > 0 /\ old_size < o.initial_size
              THEN [o4 EXCEPT !.refill_count = @ + 1]
              ELSE o4
    IN [o5 EXCEPT !.current_size = new_size, !.last_update = timestamp]

\* IcebergOrder.add_replace_event of icev3.py
v3_add_replace_event(o, new_size, timestamp, new_price) ==
    LET old_size == o.current_size
        old_price == o.current_price
        size_change == new_size - old_size
        moved == new_price # None /\ new_price # old_price
        o1 == IF moved
              THEN [o EXCEPT !.current_price = new_price,
                             !.price_history =
                                 IF InSeq(new_price, @) THEN @ ELSE Append(@, new_price),
                             !.price_changes = @ + 1]
              ELSE o
        o2 == [o1 EXCEPT !.replace_events = @ + 1]
        o3 == IF size_change < 0
              THEN [o2 EXCEPT !.size_decrease_count = @ + 1]
              ELSE o2
        o4 == [o3 EXCEPT !.min_size_seen = IF new_size < @ THEN new_size ELSE @,
                         !.max_visible_size = IF new_size > @ THEN new_size ELSE @]
        o5 == IF size_change > 0 /\ old_size < o.initial_size
              THEN [o4 EXCEPT !.refill_count = @ + 1]
              ELSE o4
    IN [o5 EXCEPT !.current_size = new_size, !.last_update = timestamp]

\* IcebergOrder.add_execution of icev3.py
v3_add_execution(o, filled_size, timestamp, is_active) ==
    LET total == o.total_filled + filled_size
        est_total == Max2(total + o.current_size, o.max_visible_size)
    IN [o EXCEPT !.active_filled = IF is_active THEN @ + filled_size ELSE @,
                 !.passive_filled = IF is_active THEN @ ELSE @ + filled_size,
                 !.total_filled = total,
                 !.last_update = timestamp,
                 !.execution_percentage =
                     IF est_total > 0 THEN Rat(total, est_total) ELSE @]

\* IcebergOrder.get_execution_ratio of icev3.py
v3_get_execution_ratio(o) ==
    IF o.max_visible_size > 0 THEN Rat(o.total_filled, o.max_visible_size)
    ELSE RInt(0)

\* RealMBOIcebergDetector._send_notification of icev3.py
v3_send_notification(d, order_id, topic_key) ==
    send_message(d, topic_key, d.active_orders[order_id], "")

\* RealMBOIcebergDetector.process_new_order of icev3.py
v3_process_new_order(d, order_id, is_bid, price, size, timestamp) ==
    LET actual_size == Normalize(d, size)
        order == v3_IcebergOrder(order_id, price, actual_size, is_bid, timestamp)
    IN [d EXCEPT !.active_orders = DictSet(@, order_id, order),
                 !.sent[order_id] = NoSent,
                 !.orders_by_price = IndexAppend(@, price, order_id)]

\* RealMBOIcebergDetector._analyze_iceberg of icev3.py
v3_analyze_iceberg(d, order_id, timestamp) ==
    LET order == d.active_orders[order_id]
    IN IF order.is_confirmed_iceberg THEN d
       ELSE IF \/ RGe(v3_get_execution_ratio(order),
                      RInt(v3_alert_execution_ratio_threshold))
               \/ order.total_filled >= Q(v3_alert_total_filled_threshold)
       THEN v3_send_notification(
                [d EXCEPT !.active_orders[order_id] =
                              [order EXCEPT !.is_confirmed_iceberg = TRUE,
                                            !.iceberg_start_time = timestamp,
                                            !.last_reported_filled = order.total_filled],
                          !.confirmed_icebergs = @ \cup {order_id}],
                order_id, "detections")
       ELSE d

\* RealMBOIcebergDetector.process_replace_order of icev3.py; an emptied price
\* level stays in orders_by_price
v3_process_replace_order(d, order_id, price, size, timestamp) ==
    IF order_id \notin DOMAIN d.active_orders THEN d
    ELSE
    LET order == d.active_orders[order_id]
        actual_size == Normalize(d, size)
        idx == IF price # order.current_price
               THEN IndexAppend(
                        IF /\ order.current_price \in DOMAIN d.orders_by_price
                           /\ InSeq(order_id, d.orders_by_price[order.current_price])
                        THEN [d.orders_by_price EXCEPT ![order.current_price] =
                                  RemoveFirst(@, order_id)]
                        ELSE d.orders_by_price,
                        price, order_id)
               ELSE d.orders_by_price
        d1 == [d EXCEPT !.orders_by_price = idx,
                        !.active_orders[order_id] =
                            v3_add_replace_event(order, actual_size, timestamp, price)]
    IN v3_analyze_iceberg(d1, order_id, timestamp)

\* RealMBOIcebergDetector.process_order_execution of icev3.py
v3_process_order_execution(d, order_id, executed_size, is_active, timestamp) ==
    IF order_id \notin DOMAIN d.active_orders THEN d
    ELSE
    LET order == v3_add_execution(d.active_orders[order_id], executed_size,
                                  timestamp, is_active)
        d1 == [d EXCEPT !.active_orders[order_id] = order]
    IN IF /\ order.is_confirmed_iceberg
          /\ order.total_filled - order.last_reported_filled >= Q(v3_progress_delta)
       THEN [v3_send_notification(d1, order_id, "updates")
                EXCEPT !.active_orders[order_id].last_reported_filled =
                           order.total_filled]
       ELSE d1

\* for p in order.price_history: remove the order id from that level; an
\* emptied level stays
RECURSIVE v3_IndexRemoveAll(_, _, _)
v3_IndexRemoveAll(idx, prices, order_id) ==
    IF prices = <<>> THEN idx
    ELSE v3_IndexRemoveAll(
             IF Head(prices) \in DOMAIN idx /\ InSeq(order_id, idx[Head(prices)])
             THEN [idx EXCEPT ![Head(prices)] = RemoveFirst(@, order_id)]
             ELSE idx,
             Tail(prices), order_id)

\* RealMBOIcebergDetector.process_cancel_order of icev3.py
v3_process_cancel_order(d, order_id, timestamp) ==
    IF order_id \notin DOMAIN d.active_orders THEN d
    ELSE
    LET order == d.active_orders[order_id]
        d1 == IF order.is_confirmed_iceberg
              THEN v3_send_notification(
                       [d EXCEPT !.active_orders[order_id].completion_time = timestamp],
                       order_id, "full_executions")
              ELSE d
    IN [d1 EXCEPT !.orders_by_price =
                      v3_IndexRemoveAll(@, order.price_history, order_id),
                  !.active_orders = DictDel(@, order_id)]

\* handle_trades of icev3.py
v3_handle_trades(d, price, size, is_bid, aggressor_order_id, passive_order_id, timestamp) ==
    LET actual_size == Normalize(d, size)
        d1 == IF passive_order_id \in DOMAIN d.active_orders
              THEN v3_process_order_execution(d, passive_order_id, actual_size,
                                              FALSE, timestamp)
              ELSE d
    IN IF aggressor_order_id \in DOMAIN d1.active_orders
       THEN v3_process_order_execution(d1, aggressor_order_id, actual_size,
                                       TRUE, timestamp)
       ELSE d1

\* handle_mbo_event of icev3.py, event_type BID_NEW / ASK_NEW
V3NewOrder(order_id, is_bid, price, size) ==
    /\ Commit(v3_process_new_order(Detector, order_id, is_bid, price, size, now))
    /\ UNCHANGED <<now, replaces, delivery>>

\* handle_mbo_event of icev3.py, event_type REPLACE
V3Replace(order_id, price, size) ==
    /\ Commit(v3_process_replace_order(Detector, order_id, price, size, now))
    /\ replaces' = replaces + 1
    /\ UNCHANGED <<now, delivery>>

\* handle_mbo_event of icev3.py, event_type CANCEL
V3Cancel(order_id) ==
    /\ Commit(v3_process_cancel_order(Detector, order_id, now))
    /\ UNCHANGED <<now, replaces, delivery>>

\* handle_trades of icev3.py
V3Trade(price, size, is_bid, aggressor_order_id, passive_order_id) ==
    /\ Commit(v3_handle_trades(Detector, price, size, is_bid,
                               aggressor_order_id, passive_order_id, now))
    /\ UNCHANGED <<now, replaces, delivery>>

(***************************************************************************)
(* The feed of the enriched variant: one order that is created when not    *)
(* active, replaced, cancelled, and named by trades as the aggressor, the  *)
(* resting side, or both.                                                  *)
(***************************************************************************)
NextV3 ==
    \/ \E is_bid \in BOOLEAN, price \in Prices, size \in V3NewRawSizes :
            /\ DeepId \notin DOMAIN active_orders
            /\ V3NewOrder(DeepId, is_bid, price, size)
    \/ \E price \in Prices, size \in V3ReplaceRawSizes :
            /\ replaces < V3Replaces
            /\ V3Replace(DeepId, price, size)
    \/ V3Cancel(DeepId)
    \/ \E size \in V3TradeRawSizes, aggressor_order_id \in {None, DeepId},
          passive_order_id \in {None, DeepId} :
            /\ DeepId \in DOMAIN active_orders
                   => active_orders[DeepId].total_filled < Q(V3MaxFilled)
            /\ V3Trade(DeepPrice, size, TRUE, aggressor_order_id, passive_order_id)

SpecV3 == Init /\ [][NextV3]_vars

(***************************************************************************)
(* Properties.                                                             *)
(***************************************************************************)
\* the ids tracked before and after a step: the same IcebergOrder object
Surviving == DOMAIN active_orders \cap DOMAIN active_orders'

Messages(topic) == {k \in 1..Len(outbox) : outbox[k].topic = topic}

Occurrences(s, x) == Cardinality({k \in 1..Len(s) : s[k] = x})

NoDuplicates(s) == \A j, k \in 1..Len(s) : s[j] = s[k] => j = k

\* C1: once is_confirmed_iceberg of a tracked order is true, no step sets it
\* back to false, and a confirmed order has had exactly one detection
\* notification, an unconfirmed one none, whichever rules hold in one
\* evaluation or in later ones.
ConfirmationIsFinalAndSingle ==
    [][/\ \A i \in Surviving :
             active_orders[i].is_confirmed_iceberg
                 => active_orders'[i].is_confirmed_iceberg
       /\ \A i \in DOMAIN active_orders' :
             sent'[i].detections =
                 IF active_orders'[i].is_confirmed_iceberg THEN 1 ELSE 0
       /\ \A i \in OrderIds : sent'[i].detections <= 1]_vars

\* an evaluation in which the refill rule confirmed the order while the volume
\* rule held as well: one detection message
SeveralRulesOneDetection ==
    /\ Len(outbox) = 1
    /\ outbox[1].topic = "detections"
    /\ outbox[1].reason = "refill pattern"
    /\ outbox[1].order.total_filled >= Q(alert_total_filled_threshold)
    /\ outbox[1].order.size_decrease_count >= 2
    /\ sent[outbox[1].order.order_id].detections = 1

\* C2: every progress message is sent for an order whose execution_percentage
\* is at least 0.7 and whose total_filled exceeds last_reported_filled by at
\* least 20, and only for an order that is confirmed and has had its
\* detection message.
ProgressOnlyWhenDue ==
    /\ \A k \in Messages("updates") :
          LET o == outbox[k].order
          IN /\ RGe(o.execution_percentage, Rat(7, 10))
             /\ o.total_filled - o.last_reported_filled >= Q(20)
             /\ o.is_confirmed_iceberg
             /\ sent[o.order_id].detections >= 1
    /\ \A i \in OrderIds : sent[i].updates > 0 => sent[i].detections > 0

\* a progress message has just been sent
ProgressSent == Messages("updates") # {}

\* C3: total_filled of a tracked order never decreases from one state to the
\* next.
TotalFilledNeverDecreases ==
    [][\A i \in Surviving :
          active_orders'[i].total_filled >= active_orders[i].total_filled]_vars

\* an order filled by a replace, by a price-level match and by a direct
\* execution
FilledThreeWays ==
    \E i \in DOMAIN active_orders :
        /\ active_orders[i].size_decrease_count >= 1
        /\ active_orders[i].execution_events >= 3
        /\ active_orders[i].total_filled > 0

\* C4 as stated: price_history has no duplicates and current_price is its
\* last element.
CurrentPriceIsLastOfHistory ==
    \A i \in DOMAIN active_orders :
        LET o == active_orders[i]
        IN /\ NoDuplicates(o.price_history)
           /\ o.current_price = o.price_history[Len(o.price_history)]

\* C4: price_history has no duplicates and contains current_price;
\* current_price is its last element as long as every price change went to a
\* price the order had not visited.
CurrentPriceInHistory ==
    \A i \in DOMAIN active_orders :
        LET o == active_orders[i]
        IN /\ NoDuplicates(o.price_history)
           /\ InSeq(o.current_price, o.price_history)
           /\ o.price_changes = Len(o.price_history) - 1
                  => o.current_price = o.price_history[Len(o.price_history)]

\* an order that moved to a second price and back to its first
ReturnedToFirstPrice ==
    \E i \in DOMAIN active_orders :
        /\ active_orders[i].price_changes = 2
        /\ Len(active_orders[i].price_history) = 2
        /\ active_orders[i].current_price = active_orders[i].price_history[1]

\* C5: get_iceberg_score of every tracked order is in [0, 1].
ScoreInUnitInterval ==
    \A i \in DOMAIN active_orders :
        /\ RGe(get_iceberg_score(active_orders[i]), RInt(0))
        /\ RLe(get_iceberg_score(active_orders[i]), RInt(1))

\* an order whose score has a refill term and an execution volume term
ScoreWithRefillAndVolume ==
    \E i \in DOMAIN active_orders :
        /\ active_orders[i].refill_count >= 2
        /\ RGt(get_execution_ratio(active_orders[i]), Rat(15, 10))
        /\ RGe(get_iceberg_score(active_orders[i]), Rat(4, 10))

\* C6: current_size of a tracked order is initial_size plus the sum of the
\* size changes (new_size - old_size) logged by its replaces, whatever trades
\* and direct executions came in between.
SizeFollowsReplaces ==
    \A i \in DOMAIN active_orders :
        active_orders[i].current_size =
            active_orders[i].initial_size + active_orders[i].replace_events.size_change

\* an order with two replaces and with fills that no replace implied
ReplacedAndTraded ==
    \E i \in DOMAIN active_orders :
        /\ active_orders[i].replace_events.n >= 2
        /\ active_orders[i].execution_events > active_orders[i].size_decrease_count
        /\ active_orders[i].current_size # active_orders[i].initial_size

\* C7 as stated: current_size is never negative, and a fill recorded by a
\* trade match or a direct execution (a step without a replace) takes the
\* filled volume out of current_size.
FillsReduceCurrentSize ==
    [][\A i \in Surviving :
          /\ active_orders'[i].current_size >= 0
          /\ active_orders'[i].replace_events.n = active_orders[i].replace_events.n
                => active_orders'[i].current_size =
                       active_orders[i].current_size
                           - (active_orders'[i].total_filled
                                  - active_orders[i].total_filled)]_vars

\* C8: while no new-order event reuses an active id (the feeds draw the id of
\* a new order from the ids that are not active), every active order's id is
\* in the price-level index once, under its current_price and nowhere else,
\* and the id of no other order is in the index.
IndexMatchesActiveOrders ==
    /\ \A i \in DOMAIN active_orders :
          active_orders[i].current_price \in DOMAIN orders_by_price
    /\ \A i \in OrderIds, p \in DOMAIN orders_by_price :
          Occurrences(orders_by_price[p], i) =
              IF i \in DOMAIN active_orders /\ active_orders[i].current_price = p
              THEN 1 ELSE 0

\* a completed order that had visited two prices is gone, and an active order
\* rests at one of them
ClosedOrderLeftNoEntry ==
    \E j \in DOMAIN completed_icebergs \ DOMAIN active_orders,
       i \in DOMAIN active_orders :
        /\ Len(completed_icebergs[j].price_history) = 2
        /\ InSeq(active_orders[i].current_price, completed_icebergs[j].price_history)

\* C9: no price level of the index has an empty list of order ids.
NoEmptyPriceLevel ==
    \A p \in DOMAIN orders_by_price : orders_by_price[p] # <<>>

\* the only order of its level moved to another price, and its level is gone
EmptiedLevelDeleted ==
    \E i \in DOMAIN active_orders :
        /\ active_orders[i].price_changes >= 1
        /\ Len(active_orders[i].price_history) = 2
        /\ DOMAIN orders_by_price = {active_orders[i].current_price}

\* C10: a cancel of a tracked order takes its id out of the index at every
\* price of its price_history and out of active_orders, potential_icebergs
\* and confirmed_icebergs; if the order was confirmed the cancel stamps
\* completion_time, records the order in completed_icebergs and sends one
\* completion message; if it was not, the cancel records and sends nothing.
CancelRemovesAndCompletes ==
    [][\A i \in DOMAIN active_orders :
          Cancel(i) =>
              LET o == active_orders[i]
              IN /\ \A k \in 1..Len(o.price_history) :
                        o.price_history[k] \in DOMAIN orders_by_price'
                            => ~InSeq(i, orders_by_price'[o.price_history[k]])
                 /\ i \notin DOMAIN active_orders'
                 /\ i \notin potential_icebergs'
                 /\ i \notin confirmed_icebergs'
                 /\ IF o.is_confirmed_iceberg
                    THEN /\ i \in DOMAIN completed_icebergs'
                         /\ completed_icebergs'[i] = [o EXCEPT !.completion_time = now]
                         /\ Len(outbox') = 1
                         /\ outbox'[1].topic = "full_executions"
                         /\ outbox'[1].order = completed_icebergs'[i]
                         /\ sent'[i].full_executions = 1
                    ELSE /\ completed_icebergs' = completed_icebergs
                         /\ outbox' = <<>>
                         /\ sent'[i] = sent[i]]_vars

\* a confirmed order that had visited two prices has just been cancelled
ConfirmedOrderCancelled ==
    \E k \in Messages("full_executions") :
        /\ outbox[k].order.order_id \notin DOMAIN active_orders
        /\ outbox[k].order.completion_time = now
        /\ Len(outbox[k].order.price_history) = 2

\* the tracked orders that have not been updated for more than 6000 seconds
Idle == {i \in DOMAIN active_orders : now - active_orders[i].last_update > 6000}

\* C11: the periodic sweep takes exactly the orders idle for more than 6000
\* seconds out of active_orders, potential_icebergs, confirmed_icebergs and
\* the price index, leaves every other order and its index entry as they
\* were, sends no message, and records no order as completed, confirmed or
\* not.
SweepIsExactAndSilent ==
    [][Interval =>
          /\ DOMAIN active_orders' = DOMAIN active_orders \ Idle
          /\ \A i \in DOMAIN active_orders' : active_orders'[i] = active_orders[i]
          /\ potential_icebergs' = potential_icebergs \ Idle
          /\ confirmed_icebergs' = confirmed_icebergs \ Idle
          /\ \A p \in DOMAIN orders_by_price' :
                /\ \A i \in Idle : ~InSeq(i, orders_by_price'[p])
                /\ p \in DOMAIN orders_by_price
                /\ \A i \in OrderIds \ Idle :
                      Occurrences(orders_by_price'[p], i)
                          = Occurrences(orders_by_price[p], i)
          /\ \A p \in DOMAIN orders_by_price :
                (\E i \in OrderIds \ Idle : InSeq(i, orders_by_price[p]))
                    => p \in DOMAIN orders_by_price'
          /\ outbox' = <<>>
          /\ sent' = sent
          /\ completed_icebergs' = completed_icebergs
          /\ total_icebergs_completed' = total_icebergs_completed]_vars

\* a confirmed order is gone without a completion, and an order touched after
\* the clock moved is still tracked
ConfirmedOrderSwept ==
    /\ total_icebergs_detected = 1
    /\ confirmed_icebergs = {}
    /\ completed_icebergs = <<>>
    /\ total_icebergs_completed = 0
    /\ now > StartTime
    /\ \E i \in DOMAIN active_orders : active_orders[i].last_update = now

\* C12: a replace or a cancel for an id that is not tracked changes nothing in
\* the engine and sends nothing; a trade that names an untracked id as passive
\* or aggressor order has the effect of the same trade naming no order.
UnknownOrderIgnored ==
    [][\A i \in OrderIds \ DOMAIN active_orders :
          /\ (\/ Cancel(i)
              \/ \E price \in Prices, size \in BookReplaceRawSizes :
                    Replace(i, price, size))
                => /\ UNCHANGED <<active_orders, potential_icebergs,
                                  confirmed_icebergs, completed_icebergs,
                                  orders_by_price, market_metrics, sent,
                                  total_icebergs_detected,
                                  total_icebergs_completed>>
                   /\ outbox' = <<>>
          /\ \A price \in Prices, size \in TradeRawSizes :
                (\/ Trade(price, size, TRUE, None, i)
                 \/ Trade(price, size, TRUE, i, None))
                    => Trade(price, size, TRUE, None, None)]_vars

\* a replace was delivered for an id that was not tracked: the only order ever
\* created has no replace
UnknownReplaceDelivered ==
    \E i \in DOMAIN active_orders :
        /\ Len(market_metrics.order_sizes) = 1
        /\ active_orders[i].replace_events.n = 0
        /\ replaces >= 1
(***************************************************************************)
(* C13  When the delivery of a notification fails, the event leaves the    *)
(* engine in the state it would have reached had the delivery succeeded:   *)
(* the same orders with the same flags and reporting baselines, the same   *)
(* memberships, index, completions and counters, and the same messages     *)
(* handed to the topics; later events are processed from that state.       *)
(***************************************************************************)
\* the detector as it would be with a working transport
Delivering == [Detector EXCEPT !.delivery = TRUE]

\* the messages of the event, without their fate
Handed(box) == [k \in DOMAIN box |-> [topic |-> box[k].topic,
                                       order |-> box[k].order,
                                       reason |-> box[k].reason]]

\* the next state is the one d describes
SameEngine(d) ==
    /\ active_orders' = d.active_orders
    /\ potential_icebergs' = d.potential_icebergs
    /\ confirmed_icebergs' = d.confirmed_icebergs
    /\ completed_icebergs' = d.completed_icebergs
    /\ orders_by_price' = d.orders_by_price
    /\ market_metrics' = d.market_metrics
    /\ total_icebergs_detected' = d.total_icebergs_detected
    /\ total_icebergs_completed' = d.total_icebergs_completed
    /\ sent' = d.sent
    /\ Handed(outbox') = Handed(d.outbox)

NegativeSizeEvent ==
    \E size \in NegativeRawSizes :
        \/ NewOrder(DeepId, FALSE, DeepPrice, size)
        \/ \E price \in Prices : Replace(DeepId, price, size)
        \/ \E passive_order_id \in {None, DeepId} :
               Trade(DeepPrice, size, TRUE, None, passive_order_id)

\* C14 as stated: an event with a negative size changes no tracked order, no
\* membership, no index entry and no metrics window.
NegativeSizeRejected ==
    [][NegativeSizeEvent =>
         UNCHANGED <<active_orders, potential_icebergs, confirmed_icebergs,
                     completed_icebergs, orders_by_price, market_metrics,
                     recent_volume>>]_vars
(***************************************************************************)
(* C15  A trade that names a tracked order as its passive side is applied  *)
(* to that order directly and only so: the order's total_filled grows by   *)
(* the trade size exactly once, with no further share from the matching of *)
(* the trade against the orders at its price.                              *)
(***************************************************************************)
DirectFillCountedOnce ==
    [][\A size \in TradeRawSizes :
          (DeepId \in DOMAIN active_orders
             /\ Trade(DeepPrice, size, TRUE, None, DeepId))
          => active_orders'[DeepId].total_filled =
                 active_orders[DeepId].total_filled + Normalize(Detector, size)]_vars
(***************************************************************************)
(* C16  Scenario: on a freshly subscribed instrument with size multiplier  *)
(* 1, the first event is a new bid of raw size 200 at price 100.  As       *)
(* stated, the order is tracked but is not a potential candidate, because  *)
(* 200 exceeds max_visible_size.                                           *)
(***************************************************************************)
\* the engine as constructed: no order, trade or depth event yet
Fresh ==
    /\ market_metrics = MarketMetrics
    /\ active_orders = <<>>
    /\ best_bid = None
    /\ size_multiplier = 1

FirstBid == Fresh /\ NewOrder(DeepId, TRUE, DeepPrice, SetMax(UnitNewRawSizes))

\* C16 as stated: the first bid of 200 is tracked and is not a potential
\* candidate.
FirstBidAboveUpperClamp ==
    [][FirstBid => /\ DeepId \in DOMAIN active_orders'
                   /\ DeepId \notin potential_icebergs']_vars

\* C16 as the code has it: the thresholds are read after the order's own size
\* has entered the metrics (average 200: trigger 100, max_visible_size 300),
\* so the first bid of 200 is tracked and is a potential candidate.
FirstBidIsCandidate ==
    [][FirstBid => /\ DeepId \in DOMAIN active_orders'
                   /\ DeepId \in potential_icebergs'
                   /\ REq(get_dynamic_thresholds(Detector').max_visible_size,
                          RInt(Q(300)))
                   /\ REq(get_dynamic_thresholds(Detector').trigger_size,
                          RInt(Q(100)))]_vars

FirstBidTracked ==
    /\ market_metrics.order_sizes = <<Q(200)>>
    /\ market_metrics.trade_sizes = <<>>
    /\ DeepId \in potential_icebergs
    /\ active_orders[DeepId].is_bid
    /\ active_orders[DeepId].initial_size = Q(200)
    /\ active_orders[DeepId].replace_events.n = 0
(***************************************************************************)
(* C17  Scenario: an order created with size 40 is replaced down to 10 and *)
(* back up to 40, again and again, with no other fill.  It is confirmed by *)
(* the refill pattern (pattern 1) at the replace with which its cumulative *)
(* fill reaches alert_total_filled_threshold, and one detection message is *)
(* sent for it over the whole sequence, at that replace.                   *)
(***************************************************************************)
\* the order has gone 40, 10, 40, 10, ... and has been filled by nothing else
Alternating(o) ==
    /\ o.initial_size = Q(40)
    /\ o.current_size = (IF o.replace_events.n % 2 = 1 THEN Q(10) ELSE Q(40))
    /\ o.size_decrease_count = (o.replace_events.n + 1) \div 2
    /\ o.refill_count = o.replace_events.n \div 2
    /\ o.total_filled = Q(30) * o.size_decrease_count

\* the replace just handled is the one that took the cumulative fill to the
\* threshold
ReachedAdmission(o) ==
    /\ o.current_size = Q(10)
    /\ o.total_filled >= Q(alert_total_filled_threshold)
    /\ o.total_filled - Q(30) < Q(alert_total_filled_threshold)

\* C17: on the 40, 10, 40, ... path the order is confirmed exactly from the
\* replace that takes its cumulative fill to the threshold, by the refill
\* pattern, with one detection message in all.
RefillScenarioConfirmsOnce ==
    \A i \in DOMAIN active_orders :
        LET o == active_orders[i]
        IN Alternating(o) =>
             /\ o.is_confirmed_iceberg <=>
                    o.total_filled >= Q(alert_total_filled_threshold)
             /\ sent[i].detections = (IF o.is_confirmed_iceberg THEN 1 ELSE 0)
             /\ ReachedAdmission(o) =>
                    /\ Len(outbox) = 1
                    /\ outbox[1].topic = "detections"
                    /\ outbox[1].reason = "refill pattern"
             /\ ~ReachedAdmission(o) => Messages("detections") = {}

FourRefillsOneDetection ==
    \E i \in DOMAIN active_orders :
        /\ Alternating(active_orders[i])
        /\ active_orders[i].refill_count = 4
        /\ active_orders[i].total_filled = Q(120)
        /\ active_orders[i].is_confirmed_iceberg
        /\ sent[i].detections = 1
        /\ total_icebergs_detected = 1
(***************************************************************************)
(* C18  Scenario: a confirmed order with max_visible_size 50 whose         *)
(* execution_percentage is at least 0.7 receives explicit fills of 5 each. *)
(* A progress message is sent on every fourth fill counted from the        *)
(* detection, when total_filled has grown by 20 since the last detection   *)
(* or progress message, and on no other fill.                              *)
(***************************************************************************)
\* fills applied to the confirmed order since its detection: every execution
\* that was not implied by a replace
FillsSinceDetection(o) == o.execution_events - o.size_decrease_count

\* C18: after n fills of 5 since the detection, n div 4 progress messages
\* have been sent, each at a fill that took the unreported fill to 20.
ProgressEveryFourthFill ==
    \A i \in confirmed_icebergs :
        LET o == active_orders[i]
            fills == FillsSinceDetection(o)
        IN (o.max_visible_size = Q(50) /\ fills >= 1) =>
             /\ RGe(o.execution_percentage, execution_threshold)
             /\ sent[i].updates = fills \div 4
             /\ o.total_filled - o.last_reported_filled = Q(5) * (fills % 4)
             /\ \A k \in Messages("updates") :
                    outbox[k].order.total_filled = o.last_reported_filled

EightFillsTwoProgress ==
    \E i \in confirmed_icebergs :
        /\ active_orders[i].max_visible_size = Q(50)
        /\ FillsSinceDetection(active_orders[i]) = 8
        /\ sent[i].updates = 2
        /\ Messages("updates") # {}
(***************************************************************************)
(* C19  Scenario: a new order whose normalized size is below               *)
(* min_visible_size is not tracked, and the replaces, trades and cancels   *)
(* that follow for its id send nothing and leave the id in none of         *)
(* active_orders, potential_icebergs, confirmed_icebergs,                  *)
(* completed_icebergs and the price index, which keeps no entry at all.    *)
(***************************************************************************)
\* every new order so far was smaller than the least min_visible_size, the
\* lower clamp 10 of get_dynamic_thresholds
OnlySmallOrders ==
    /\ market_metrics.order_sizes # <<>>
    /\ \A k \in 1..Len(market_metrics.order_sizes) :
           /\ market_metrics.order_sizes[k] < Q(10)
           /\ RLt(RInt(market_metrics.order_sizes[k]),
                  get_dynamic_thresholds(Detector).min_visible_size)

\* C19: while only orders below min_visible_size have arrived, nothing is
\* tracked, indexed, completed or sent, whatever events followed.
SmallOrderLeavesNoTrace ==
    OnlySmallOrders =>
        /\ active_orders = <<>>
        /\ potential_icebergs = {}
        /\ confirmed_icebergs = {}
        /\ completed_icebergs = <<>>
        /\ orders_by_price = <<>>
        /\ outbox = <<>>
        /\ \A i \in OrderIds : sent[i] = NoSent
        /\ total_icebergs_detected = 0
        /\ total_icebergs_completed = 0

SmallOrderReplacedAndTraded ==
    /\ OnlySmallOrders
    /\ replaces >= 1
    /\ market_metrics.trade_sizes # <<>>

(***************************************************************************)
(* C20  For every tracked order, max_visible_size is at least initial_size *)
(* and at least every size a replace has reported for it (current_size     *)
(* among them), and min_size_seen is at most current_size and at most      *)
(* initial_size.                                                           *)
(***************************************************************************)
VisibleSizeBounds ==
    \A i \in DOMAIN active_orders :
        LET o == active_orders[i]
        IN /\ o.max_visible_size >= o.initial_size
           /\ o.max_visible_size >= o.current_size
           /\ o.min_size_seen <= o.current_size
           /\ o.min_size_seen <= o.initial_size

\* C20: the bounds hold after every event, and no event on a tracked order
\* moves them inwards, so they still enclose every size reported earlier
VisibleSizeBoundsKept ==
    [][/\ VisibleSizeBounds'
       /\ \A i \in DOMAIN active_orders \cap DOMAIN active_orders' :
             /\ active_orders'[i].max_visible_size >= active_orders[i].max_visible_size
             /\ active_orders'[i].min_size_seen <= active_orders[i].min_size_seen]_vars

\* an order replaced above its initial size and then below that size again
RaisedThenLowered ==
    \E i \in DOMAIN active_orders :
        /\ active_orders[i].replace_events.n >= 2
        /\ active_orders[i].max_visible_size > active_orders[i].initial_size
        /\ active_orders[i].current_size < active_orders[i].max_visible_size
        /\ active_orders[i].min_size_seen < active_orders[i].max_visible_size
(***************************************************************************)
(* C21  The confirmation rules are evaluated after every replace and after *)
(* every execution on an order not yet confirmed: a fill that brings the   *)
(* order to pass the alert admission test and one of the rules a-e         *)
(* confirms it, with its detection message, in the same event.             *)
(***************************************************************************)
\* the admission test and one of the five patterns hold of the order
RulesHold(o) ==
    LET s == get_iceberg_score(o)
        r == get_execution_ratio(o)
        ratio == RGe(r, RInt(alert_execution_ratio_threshold))
        volume == o.total_filled >= Q(alert_total_filled_threshold)
    IN /\ should_alert(o)
       /\ \/ o.refill_count >= 1 /\ RGe(s, Rat(4, 10))
          \/ ratio /\ RGe(RInt(o.current_size), RMul(RInt(o.min_size_seen), 8, 10))
          \/ volume /\ o.size_decrease_count >= 2
          \/ volume /\ o.size_decrease_count >= 3
          \/ ratio /\ RGe(RInt(o.current_size), RMul(RInt(o.initial_size), 6, 10))

\* a trade of the one-order feed
DeepTrade ==
    \E passive_order_id \in {None, DeepId} :
        Trade(DeepPrice, SetMax(TradeRawSizes), TRUE, None, passive_order_id)

\* a replace of the one-order feed
DeepReplace == \E price \in Prices, size \in ReplaceRawSizes : Replace(DeepId, price, size)

\* C21 as stated, for the fills of a trade: after the trade no tracked order
\* that passes the admission test and a rule is left unconfirmed.
FillConfirms ==
    [][DeepTrade =>
         \A i \in DOMAIN active_orders' :
             RulesHold(active_orders'[i]) => active_orders'[i].is_confirmed_iceberg]_vars

\* C21 as the code has it: the rules are evaluated after every replace of a
\* tracked order and only then.  A replace confirms the order exactly when
\* the rules hold of it afterwards; a trade confirms nothing and sends no
\* detection, whatever its fills bring about; every confirmation is made by
\* a replace of the order.
OnlyReplaceConfirms ==
    [][/\ DeepTrade => /\ confirmed_icebergs' = confirmed_icebergs
                       /\ total_icebergs_detected' = total_icebergs_detected
                       /\ \A k \in 1..Len(outbox') : outbox'[k].topic # "detections"
       /\ confirmed_icebergs' \ confirmed_icebergs # {} => DeepReplace
       /\ (DeepReplace /\ DeepId \in DOMAIN active_orders) =>
              (active_orders'[DeepId].is_confirmed_iceberg
                 <=> \/ active_orders[DeepId].is_confirmed_iceberg
                     \/ RulesHold(active_orders'[DeepId]))]_vars

\* a trade has left the order unconfirmed although the rules hold of it
AdmittedByFillUnconfirmed ==
    /\ DeepId \in DOMAIN active_orders
    /\ ~active_orders[DeepId].is_confirmed_iceberg
    /\ RulesHold(active_orders[DeepId])
    /\ active_orders[DeepId].execution_events > active_orders[DeepId].size_decrease_count
(***************************************************************************)
(* C22  After confirmation, on every fill of the order, whether it comes   *)
(* from a trade match, a direct execution or the size decrease of a        *)
(* replace: if after the fill execution_percentage is at least 0.7 and     *)
(* total_filled exceeds last_reported_filled by at least 20, a progress    *)
(* message is sent in that event and last_reported_filled becomes          *)
(* total_filled.                                                           *)
(***************************************************************************)
\* the fill that has not been reported yet
Unreported(o) == o.total_filled - o.last_reported_filled

\* a progress message is among the messages of the event
ProgressInOutbox(box) == \E k \in 1..Len(box) : box[k].topic = "updates"

\* C22 as stated, for the fill a replace implies.
ImpliedFillReported ==
    [][(/\ DeepReplace
        /\ DeepId \in confirmed_icebergs
        /\ active_orders'[DeepId].total_filled > active_orders[DeepId].total_filled
        /\ RGe(active_orders'[DeepId].execution_percentage, execution_threshold)
        /\ active_orders'[DeepId].total_filled
              - active_orders[DeepId].last_reported_filled >= Q(progress_delta))
       => /\ ProgressInOutbox(outbox')
          /\ Unreported(active_orders'[DeepId]) = 0]_vars

\* C22 as the code has it: the progress of a confirmed order is reported on
\* the fills of trades only.  After a trade that filled the order, if the
\* alert admission test holds and execution_percentage is at least 0.7, less
\* than 20 is left unreported, and a progress message was sent in the event
\* if 20 or more had gathered since the last report.  A replace of a
\* confirmed order sends no progress message and leaves last_reported_filled
\* as it was, whatever fill it implies.
ProgressOnTradeFillsOnly ==
    [][/\ (/\ DeepTrade
           /\ DeepId \in confirmed_icebergs
           /\ active_orders'[DeepId].total_filled > active_orders[DeepId].total_filled
           /\ should_alert(active_orders'[DeepId])
           /\ RGe(active_orders'[DeepId].execution_percentage, execution_threshold))
          => /\ Unreported(active_orders'[DeepId]) < Q(progress_delta)
             /\ active_orders'[DeepId].total_filled
                   - active_orders[DeepId].last_reported_filled >= Q(progress_delta)
                 => ProgressInOutbox(outbox')
       /\ (DeepReplace /\ DeepId \in confirmed_icebergs)
          => /\ ~ProgressInOutbox(outbox')
             /\ active_orders'[DeepId].last_reported_filled
                   = active_orders[DeepId].last_reported_filled]_vars

\* a replace of the confirmed order has implied a fill that is due for a
\* report and has not been reported
ImpliedFillLeftUnreported ==
    /\ DeepId \in confirmed_icebergs
    /\ RGe(active_orders[DeepId].execution_percentage, execution_threshold)
    /\ should_alert(active_orders[DeepId])
    /\ Unreported(active_orders[DeepId]) >= Q(progress_delta)
    /\ ~ProgressInOutbox(outbox)
(***************************************************************************)
(* C23  An order is confirmed only from the potential candidates: every    *)
(* confirmed order was put in potential_icebergs when it was created.      *)
(* Membership of potential_icebergs is decided at creation and ends with   *)
(* the order, so for a tracked order it tells what happened at creation.   *)
(***************************************************************************)
ConfirmedWasCandidate == confirmed_icebergs \subseteq potential_icebergs

\* C23 as the code has it: an order is confirmed from active tracking,
\* candidate or not.  Every confirmed order is tracked, and a replace of a
\* tracked, unconfirmed order confirms it exactly when the admission test
\* and a rule hold of it afterwards.
ConfirmedFromTracked ==
    [][/\ confirmed_icebergs' \subseteq DOMAIN active_orders'
       /\ \A size \in UnitReplaceRawSizes :
             (/\ Replace(DeepId, DeepPrice, size)
              /\ DeepId \in DOMAIN active_orders
              /\ DeepId \notin confirmed_icebergs)
             => (DeepId \in confirmed_icebergs'
                   <=> RulesHold(active_orders'[DeepId]))]_vars

\* an order that was no candidate at creation has been confirmed
ConfirmedNeverCandidate ==
    \E i \in confirmed_icebergs :
        /\ i \notin potential_icebergs
        /\ active_orders[i].is_confirmed_iceberg
        /\ sent[i].detections = 1
(***************************************************************************)
(* C24  On a new-order event the size is divided by the size multiplier    *)
(* (taken as it is when the multiplier is 0) and recorded in the market    *)
(* metrics.  The order enters active_orders and the price index exactly    *)
(* when the normalized size is at least min_visible_size, and              *)
(* potential_icebergs exactly when it was admitted, its size lies in       *)
(* [trigger_size, max_visible_size] and its distance from the best         *)
(* reference price is at most 50 price increments.                         *)
(***************************************************************************)
\* the size of the event in program units
Normalized(size) ==
    IF size_multiplier = 0 THEN Q(size) ELSE Q(size) \div size_multiplier

\* the index lists the id at the price
Indexed(index, order_id, price) ==
    price \in DOMAIN index /\ InSeq(order_id, index[price])

\* C24: the admission of the new order, with the thresholds of the metrics
\* that the order's own size has entered.
NewOrderAdmission ==
    [][\A order_id \in OrderIds \ DOMAIN active_orders, is_bid \in BOOLEAN,
          price \in Prices, size \in AdmissionRawSizes :
          NewOrder(order_id, is_bid, price, size) =>
            LET actual == Normalized(size)
                thresholds == get_dynamic_thresholds(Detector')
                admitted == RGe(RInt(actual), thresholds.min_visible_size)
                near == RLe(get_distance_from_best(Detector, price, is_bid),
                            RInt(max_distance_pips))
            IN /\ market_metrics'.order_sizes =
                      Append(market_metrics.order_sizes, actual)
               /\ order_id \in DOMAIN active_orders' <=> admitted
               /\ Indexed(orders_by_price', order_id, price) <=> admitted
               /\ admitted => /\ active_orders'[order_id].initial_size = actual
                               /\ active_orders'[order_id].current_size = actual
               /\ ~admitted => orders_by_price' = orders_by_price
               /\ order_id \in potential_icebergs' <=>
                      /\ admitted
                      /\ RGe(RInt(actual), thresholds.trigger_size)
                      /\ RLe(RInt(actual), thresholds.max_visible_size)
                      /\ near]_vars

\* on an instrument with multiplier 0 one order was admitted as a candidate
\* and one, of raw size 400, was admitted without becoming a candidate
RawSizesAdmitted ==
    /\ size_multiplier = 0
    /\ Len(market_metrics.order_sizes) = 2
    /\ \E i \in DOMAIN active_orders :
          i \notin potential_icebergs /\ active_orders[i].initial_size = Q(400)
    /\ \E i \in potential_icebergs : active_orders[i].initial_size = Q(40)

(***************************************************************************)
(* C25  The distance of the candidate gate is measured from the best price *)
(* of the opposite side: for a bid |price - best ask| / pips, for an ask   *)
(* |price - best bid| / pips.                                              *)
(***************************************************************************)
\* the new order passes the size gates of the candidate test
SizeGates(size) ==
    LET thresholds == get_dynamic_thresholds(Detector')
    IN /\ RGe(RInt(Normalized(size)), thresholds.min_visible_size)
       /\ RGe(RInt(Normalized(size)), thresholds.trigger_size)
       /\ RLe(RInt(Normalized(size)), thresholds.max_visible_size)

\* |price - best| in price increments is at most 50; no best price, no distance
Within(price, best) == best \in {None, 0} \/ Abs(price - best) <= max_distance_pips * pips

\* C25 as stated: a new order that passes the size gates is a candidate
\* exactly when it is within 50 increments of the other side's best price.
DistanceFromOppositeBest ==
    [][\A order_id \in OrderIds \ DOMAIN active_orders, is_bid \in BOOLEAN,
          price \in Prices, size \in AdmissionRawSizes :
          (NewOrder(order_id, is_bid, price, size) /\ SizeGates(size)) =>
             (order_id \in potential_icebergs'
                <=> Within(price, IF is_bid THEN best_ask ELSE best_bid))]_vars

\* C25 as the code has it: the distance is measured from the best price of
\* the order's own side, |price - best bid| / pips for a bid and
\* |price - best ask| / pips for an ask.
DistanceFromSameSideBest ==
    [][\A order_id \in OrderIds \ DOMAIN active_orders, is_bid \in BOOLEAN,
          price \in Prices, size \in AdmissionRawSizes :
          (NewOrder(order_id, is_bid, price, size) /\ SizeGates(size)) =>
             (order_id \in potential_icebergs'
                <=> Within(price, IF is_bid THEN best_bid ELSE best_ask))]_vars

\* a bid is a candidate next to the best bid and far from the best ask
BidCandidateFarFromAsk ==
    \E i \in potential_icebergs :
        /\ active_orders[i].is_bid
        /\ best_bid # None /\ best_ask # None
        /\ Abs(active_orders[i].current_price - best_bid) <= max_distance_pips * pips
        /\ Abs(active_orders[i].current_price - best_ask) > max_distance_pips * pips
(***************************************************************************)
(* C26  When an order is confirmed, is_confirmed_iceberg becomes true,     *)
(* iceberg_start_time is stamped and last_reported_filled is set to        *)
(* total_filled; so the first progress message after the detection comes   *)
(* only when total_filled has grown by at least 20 beyond its value at     *)
(* confirmation.                                                           *)
(***************************************************************************)
\* C26: the effects of the confirming event; the baseline stays where the
\* confirmation put it until the first progress message; and that message
\* reports a total at least 20 above the baseline.
ConfirmationSetsBaseline ==
    [][\A i \in DOMAIN active_orders \cap DOMAIN active_orders' :
          LET o == active_orders[i]
              p == active_orders'[i]
          IN /\ (~o.is_confirmed_iceberg /\ p.is_confirmed_iceberg) =>
                  /\ i \in confirmed_icebergs'
                  /\ p.iceberg_start_time = now
                  /\ p.last_reported_filled = p.total_filled
                  /\ sent'[i].detections = 1
                  /\ sent'[i].updates = 0
                  /\ \E k \in 1..Len(outbox') :
                        /\ outbox'[k].topic = "detections"
                        /\ outbox'[k].order.total_filled = p.total_filled
             /\ (o.is_confirmed_iceberg /\ sent'[i].updates = 0) =>
                  p.last_reported_filled = o.last_reported_filled
             /\ (o.is_confirmed_iceberg /\ sent[i].updates = 0
                                        /\ sent'[i].updates > 0) =>
                  \A k \in 1..Len(outbox') :
                      outbox'[k].topic = "updates" =>
                          outbox'[k].order.total_filled - o.last_reported_filled
                              >= Q(progress_delta)]_vars

\* the first progress message of a confirmed order has just been sent
FirstProgressAfterDetection ==
    \E i \in confirmed_icebergs :
        /\ sent[i].detections = 1
        /\ sent[i].updates = 1
        /\ ProgressInOutbox(outbox)
        /\ active_orders[i].iceberg_start_time # None
(***************************************************************************)
(* C27  A trade at price P with aggressor side S is matched to exactly the *)
(* active orders indexed at P whose side is opposite to S.  With none, no  *)
(* order changes; with n of them each receives a fill of                   *)
(* min(size / n, current_size), none when that is 0; orders at other       *)
(* prices or on the aggressor's side are unchanged.                        *)
(***************************************************************************)
\* the active orders indexed at the price on the side opposite to the trade
MatchedOrders(price, is_bid) ==
    {i \in DOMAIN active_orders :
        Indexed(orders_by_price, i, price) /\ active_orders[i].is_bid # is_bid}

\* C27: the trade events that carry no order identifier (spec.md section 6,
\* Trade (price, size, side)); the fill of an identified order is the subject
\* of C15.
TradeMatchedAtPriceLevel ==
    [][\A price \in Prices, size \in TradeRawSizes, is_bid \in BOOLEAN :
          Trade(price, size, is_bid, None, None) =>
            LET matched == MatchedOrders(price, is_bid)
                n == Cardinality(matched)
            IN /\ DOMAIN active_orders' = DOMAIN active_orders
               /\ \A i \in DOMAIN active_orders \ matched :
                      active_orders'[i] = active_orders[i]
               /\ \A i \in matched :
                      LET o == active_orders[i]
                          p == active_orders'[i]
                          share == Normalized(size) \div n
                          fill == IF share < o.current_size THEN share
                                  ELSE o.current_size
                      IN IF fill > 0
                         THEN /\ p.total_filled = o.total_filled + fill
                              /\ p.execution_events = o.execution_events + 1
                              /\ p.current_size = o.current_size
                         ELSE p = o]_vars

\* two ask orders at one price have shared a trade: each holds half of the
\* trade's size, which neither a replace nor an undivided trade gives an
\* order of full size
TradeSplitBetweenTwo ==
    /\ DOMAIN active_orders = OrderIds
    /\ \E price \in Prices :
          \A i \in OrderIds :
              /\ Indexed(orders_by_price, i, price)
              /\ ~active_orders[i].is_bid
              /\ active_orders[i].size_decrease_count = 0
              /\ active_orders[i].execution_events = 1
              /\ active_orders[i].current_size = Normalized(SetMax(TradeRawSizes))
              /\ 2 * active_orders[i].total_filled = Normalized(SetMax(TradeRawSizes))
(***************************************************************************)
(* C28  On a replace of a tracked order: a size increase while the         *)
(* pre-replace current_size is below initial_size adds 1 to refill_count   *)
(* and to consecutive_refills; a size increase not meeting that condition  *)
(* resets consecutive_refills to 0 and leaves refill_count alone; a        *)
(* replace that does not increase the size changes neither counter.        *)
(***************************************************************************)
\* a replace of the tracked order of the unit feed to the raw size
UnitReplace(size) ==
    DeepId \in DOMAIN active_orders /\ Replace(DeepId, DeepPrice, size)

\* C28 as stated: a replace that does not increase the size keeps
\* consecutive_refills.
RunKeptByNonIncrease ==
    [][\A size \in UnitReplaceRawSizes :
          UnitReplace(size) =>
            LET o == active_orders[DeepId]
                p == active_orders'[DeepId]
                increase == Normalized(size) > o.current_size
            IN IF increase /\ o.current_size < o.initial_size
               THEN /\ p.refill_count = o.refill_count + 1
                    /\ p.consecutive_refills = o.consecutive_refills + 1
               ELSE IF increase
               THEN /\ p.refill_count = o.refill_count
                    /\ p.consecutive_refills = 0
               ELSE /\ p.refill_count = o.refill_count
                    /\ p.consecutive_refills = o.consecutive_refills]_vars

\* C28: the counters as the code keeps them.  Every replace that is not a
\* refill, a decrease or an unchanged size included, resets
\* consecutive_refills to 0 and leaves refill_count alone.
RunEndedByEveryOtherReplace ==
    [][\A size \in UnitReplaceRawSizes :
          UnitReplace(size) =>
            LET o == active_orders[DeepId]
                p == active_orders'[DeepId]
                increase == Normalized(size) > o.current_size
            IN IF increase /\ o.current_size < o.initial_size
               THEN /\ p.refill_count = o.refill_count + 1
                    /\ p.consecutive_refills = o.consecutive_refills + 1
               ELSE /\ p.refill_count = o.refill_count
                    /\ p.consecutive_refills = 0]_vars

\* the order was refilled and then lowered again: the decrease ended the run
RefilledThenLowered ==
    /\ DeepId \in DOMAIN active_orders
    /\ active_orders[DeepId].refill_count >= 1
    /\ active_orders[DeepId].current_size < active_orders[DeepId].max_visible_size
    /\ active_orders[DeepId].size_decrease_count >= 2
    /\ active_orders[DeepId].consecutive_refills = 0
(***************************************************************************)
(* C29  A replace that lowers a tracked order's size by d > 0 is an        *)
(* implicit fill: total_filled grows by exactly d, one execution event is  *)
(* appended and size_decrease_count grows by exactly 1; a replace that     *)
(* does not lower the size changes neither total_filled nor                *)
(* size_decrease_count.                                                    *)
(***************************************************************************)
\* C29: every replace of the tracked order of the one-order feed, at either
\* price.
LoweringReplaceIsFill ==
    [][\A price \in Prices, size \in ReplaceRawSizes :
          (DeepId \in DOMAIN active_orders /\ Replace(DeepId, price, size)) =>
            LET o == active_orders[DeepId]
                p == active_orders'[DeepId]
                d == o.current_size - Normalized(size)
            IN IF d > 0
               THEN /\ p.total_filled = o.total_filled + d
                    /\ p.execution_events = o.execution_events + 1
                    /\ p.size_decrease_count = o.size_decrease_count + 1
               ELSE /\ p.total_filled = o.total_filled
                    /\ p.execution_events = o.execution_events
                    /\ p.size_decrease_count = o.size_decrease_count]_vars

\* the order was lowered twice with a raise in between, and no trade filled
\* it: its total is the sum of the two decreases
TwoLoweringReplaces ==
    /\ DeepId \in DOMAIN active_orders
    /\ active_orders[DeepId].size_decrease_count = 2
    /\ active_orders[DeepId].execution_events = 2
    /\ active_orders[DeepId].replace_events.n = 3
    /\ active_orders[DeepId].total_filled > 0
(***************************************************************************)
(* C30  After every replace and after every fill of a tracked order,       *)
(* execution_percentage equals                                             *)
(* total_filled / max(total_filled + current_size, max_visible_size) on    *)
(* the order's values after the event.                                     *)
(***************************************************************************)
\* the quotient of the order's present values
ExecutionPercentageOf(o) ==
    Rat(o.total_filled, Max2(o.total_filled + o.current_size, o.max_visible_size))

\* C30: every order that a replace or a fill has touched carries the quotient
\* of its present values (no other event changes the four fields).
ExecutionPercentageCurrent ==
    \A i \in DOMAIN active_orders :
        LET o == active_orders[i]
        IN (o.replace_events.n > 0 \/ o.execution_events > 0) =>
               REq(o.execution_percentage, ExecutionPercentageOf(o))

\* the part of C30 that the code keeps: an order that was filled and never
\* replaced carries the quotient of its present values
ExecutionPercentageCurrentAfterFills ==
    \A i \in DOMAIN active_orders :
        LET o == active_orders[i]
        IN (o.replace_events.n = 0 /\ o.execution_events > 0) =>
               REq(o.execution_percentage, ExecutionPercentageOf(o))
(***************************************************************************)
(* C31  For every state of the market metrics, get_dynamic_thresholds      *)
(* returns triggerSize = max(avgOrderSize * 10%, percentileOrderSize(75) * *)
(* 0.5) clamped to [20, 500], maxVisibleSize = avgOrderSize * 150% clamped *)
(* to [50, 1000], minVisibleSize = avgOrderSize * 10% clamped to [10, 100] *)
(* and volumeThreshold = volumeRate * 30% unclamped.                       *)
(***************************************************************************)
\* x clamped to [lo, hi], all in program units
Clamped(x, lo, hi) ==
    IF RLt(x, RInt(Q(lo))) THEN RInt(Q(lo))
    ELSE IF RGt(x, RInt(Q(hi))) THEN RInt(Q(hi))
    ELSE x

\* C31: the thresholds of the engine's metrics in every state of the metrics
\* feed.
ThresholdsAsSpecified ==
    LET t == get_dynamic_thresholds(Detector)
        avg == get_avg_order_size(market_metrics)
        tenth == RMul(avg, 1, 10)
        half == Rat(get_percentile_order_size(market_metrics, 75), 2)
    IN /\ REq(t.trigger_size,
              Clamped(IF RGe(tenth, half) THEN tenth ELSE half, 20, 500))
       /\ REq(t.max_visible_size, Clamped(RMul(avg, 3, 2), 50, 1000))
       /\ REq(t.min_visible_size, Clamped(tenth, 10, 100))
       /\ REq(t.volume_threshold, RMul(get_volume_rate(market_metrics), 3, 10))

\* after three orders the three size thresholds lie strictly inside their
\* clamps, and a computed volume rate above its floor gives the volume
\* threshold
ThresholdsInsideClamps ==
    LET t == get_dynamic_thresholds(Detector)
    IN /\ Len(market_metrics.order_sizes) = MetricsNewOrders
       /\ RGt(t.trigger_size, RInt(Q(20))) /\ RLt(t.trigger_size, RInt(Q(500)))
       /\ RGt(t.max_visible_size, RInt(Q(50))) /\ RLt(t.max_visible_size, RInt(Q(1000)))
       /\ RGt(t.min_visible_size, RInt(Q(10))) /\ RLt(t.min_visible_size, RInt(Q(100)))
       /\ RGt(market_metrics.volume_rate, RInt(Q(50)))
       /\ Len(market_metrics.volume_history) >= 2
(***************************************************************************)
(* C32  iceberg_score is the sum, capped at 1.0, of 0.3 if                 *)
(* min_size_seen / max_visible_size > 0.3; plus 0.1 per refill capped at   *)
(* 0.4 (so one refill contributes 0.1); plus, when total_filled /          *)
(* max_visible_size exceeds 1.5, 0.1 per unit of that ratio capped at 0.3. *)
(***************************************************************************)
\* the size consistency term and the execution volume term of the score, in
\* tenths of the order's max_visible_size so that no division is needed
SizeTerm(o) ==
    IF 10 * o.min_size_seen > 3 * o.max_visible_size THEN Rat(3, 10) ELSE RInt(0)

VolumeTerm(o) ==
    IF 10 * o.total_filled > 15 * o.max_visible_size
    THEN (IF o.total_filled >= 3 * o.max_visible_size
          THEN Rat(3, 10) ELSE Rat(o.total_filled, 10 * o.max_visible_size))
    ELSE RInt(0)

\* 0.1 per refill capped at 0.4, counted from the given number of refills on
RefillTerm(o, from) ==
    IF o.refill_count < from THEN RInt(0)
    ELSE IF o.refill_count >= 4 THEN Rat(4, 10) ELSE Rat(o.refill_count, 10)

ScoreSum(o, from) ==
    LET sum == RAdd(RAdd(SizeTerm(o), RefillTerm(o, from)), VolumeTerm(o))
    IN IF RGt(sum, RInt(1)) THEN RInt(1) ELSE sum

\* C32 as stated: every refill counts, the first included.
ScoreCountsFirstRefill ==
    \A i \in DOMAIN active_orders :
        REq(get_iceberg_score(active_orders[i]), ScoreSum(active_orders[i], 1))

\* C32: the score as the code computes it.  The refill term is 0.1 per refill
\* capped at 0.4 once there are two refills; a single refill contributes
\* nothing.
ScoreCountsRefillsFromTwo ==
    \A i \in DOMAIN active_orders :
        REq(get_iceberg_score(active_orders[i]), ScoreSum(active_orders[i], 2))

\* an order with exactly one refill and an execution ratio above 1.5: its
\* score is the execution volume term alone
OneRefillScoresNothing ==
    \E i \in DOMAIN active_orders :
        LET o == active_orders[i]
        IN /\ o.refill_count = 1
           /\ RGt(VolumeTerm(o), RInt(0))
           /\ REq(get_iceberg_score(o), VolumeTerm(o))
(***************************************************************************)
(* C33  The aggregates the threshold calculator reads are never zero: in   *)
(* every state, also before any data and before the first recompute,       *)
(* averageOrderSize() >= 10, averageTradeSize() >= 5, volumeRate() >= 50,  *)
(* and percentileOrderSize(p) is the floor constant 100 when the           *)
(* order-size window is empty.                                             *)
(***************************************************************************)
\* C33: the four getters in every state of the metrics feed.
AggregatesHaveFloors ==
    /\ RGe(get_avg_order_size(market_metrics), RInt(Q(10)))
    /\ RGe(get_avg_trade_size(market_metrics), RInt(Q(5)))
    /\ RGe(get_volume_rate(market_metrics), RInt(Q(50)))
    /\ market_metrics.order_sizes = <<>> =>
           \A p \in 0..100 : get_percentile_order_size(market_metrics, p) = Q(100)

\* the three cached aggregates were computed from recorded data and all lie
\* below their floors
ComputedBelowFloors ==
    /\ market_metrics.order_sizes # <<>>
    /\ market_metrics.trade_sizes # <<>>
    /\ Len(market_metrics.volume_history) >= 2
    /\ RGt(market_metrics.avg_order_size, RInt(0))
    /\ RLt(market_metrics.avg_order_size, RInt(Q(10)))
    /\ RGt(market_metrics.avg_trade_size, RInt(0))
    /\ RLt(market_metrics.avg_trade_size, RInt(Q(5)))
    /\ RGt(market_metrics.volume_rate, RInt(0))
    /\ RLt(market_metrics.volume_rate, RInt(Q(50)))
(***************************************************************************)
(* C34  For a non-empty order-size window of n elements,                   *)
(* percentileOrderSize(p) returns exactly the element at index             *)
(* min(floor(p/100 * n), n - 1) of the ascending-sorted window, for every  *)
(* window content and every p in 0..100.                                   *)
(***************************************************************************)
\* C34 as stated.
PercentileIsElement ==
    LET w == market_metrics.order_sizes
        n == Len(w)
        sorted == Sorted(w)
    IN n > 0 =>
         \A p \in 0..100 :
             get_percentile_order_size(market_metrics, p)
                 = sorted[Min2((p * n) \div 100, n - 1) + 1]

\* C34: what the method returns.  The selected element is raised to 20 when
\* it is smaller, and the index is the truncated double-precision product,
\* one below floor(p * n / 100) for the five products that the
\* multiplication rounds to just below an integer.
PercentileIsFlooredElement ==
    LET w == market_metrics.order_sizes
        n == Len(w)
        sorted == Sorted(w)
    IN n > 0 =>
         \A p \in 0..100 :
             LET exact == (p * n) \div 100
                 index == IF \/ (p = 58 /\ n = 50) \/ (p = 70 /\ n = 90)
                             \/ (p \in {29, 57, 58} /\ n = 100)
                          THEN exact - 1 ELSE exact
                 element == sorted[Min2(index, n - 1) + 1]
             IN get_percentile_order_size(market_metrics, p)
                    = IF element < Q(20) THEN Q(20) ELSE element

\* a full window in which an order of 5 has pushed out the oldest entry: the
\* lowest percentile is the floor 20, not the 5
SmallOrderInFullWindow ==
    /\ Len(market_metrics.order_sizes) = window_size
    /\ InSeq(Q(5), market_metrics.order_sizes)
    /\ ~InSeq(Q(11), market_metrics.order_sizes)
    /\ get_percentile_order_size(market_metrics, 0) = Q(20)
(***************************************************************************)
(* C35  Of the five confirmation rules evaluated in the order a to e,      *)
(* d (volume breach with size_decrease_count >= 3) and e (high execution   *)
(* ratio with current_size >= 0.6 * initial_size) never confirm an order   *)
(* when sizes are non-negative: when d's condition holds c has confirmed,  *)
(* when e's holds b has (min_size_seen <= current_size always), so every   *)
(* detection reason is one of a, b, c.                                     *)
(***************************************************************************)
\* the conditions of rules b, c, d and e on an order's values
RuleB(o) ==
    /\ o.total_filled >= alert_execution_ratio_threshold * o.max_visible_size
    /\ 10 * o.current_size >= 8 * o.min_size_seen

RuleC(o) ==
    o.total_filled >= Q(alert_total_filled_threshold) /\ o.size_decrease_count >= 2

RuleD(o) ==
    o.total_filled >= Q(alert_total_filled_threshold) /\ o.size_decrease_count >= 3

RuleE(o) ==
    /\ o.total_filled >= alert_execution_ratio_threshold * o.max_visible_size
    /\ 10 * o.current_size >= 6 * o.initial_size

\* the detection messages of the event just handled
DetectionsInOutbox(box) == {k \in 1..Len(box) : box[k].topic = "detections"}

\* C35: no detection carries the reason of d or e; min_size_seen never
\* exceeds current_size; and an event that confirms an order for which d's
\* (e's) condition holds finds c's (b's) condition true of the same values.
RulesDAndENeverConfirm ==
    [][/\ \A k \in DetectionsInOutbox(outbox') :
             outbox'[k].reason \in {"refill pattern", "high execution ratio",
                                    "large volume"}
       /\ \A i \in DOMAIN active_orders' :
             active_orders'[i].min_size_seen <= active_orders'[i].current_size
       /\ \A i \in DOMAIN active_orders \cap DOMAIN active_orders' :
             LET o == active_orders[i]
                 p == active_orders'[i]
             IN (~o.is_confirmed_iceberg /\ p.is_confirmed_iceberg) =>
                    /\ RuleD(p) => RuleC(p)
                    /\ RuleE(p) => RuleB(p)
                    /\ RuleE(p) =>
                          \A k \in DetectionsInOutbox(outbox') :
                              outbox'[k].reason \in {"refill pattern",
                                                     "high execution ratio"}]_vars

\* the order has just been confirmed by a replace that left it with three
\* size decreases and the volume of rule d
ConfirmedWhereDHolds ==
    /\ DetectionsInOutbox(outbox) # {}
    /\ \E i \in confirmed_icebergs : RuleD(active_orders[i])

\* the order has just been confirmed by a replace that left it with the
\* execution ratio and the size of rule e
ConfirmedWhereEHolds ==
    /\ DetectionsInOutbox(outbox) # {}
    /\ \E i \in confirmed_icebergs : RuleE(active_orders[i])
(***************************************************************************)
(* C36  In every reachable state potential_icebergs is a subset of         *)
(* active_orders and confirmed_icebergs is exactly the set of active       *)
(* orders whose is_confirmed_iceberg is true (no cancelled or expired      *)
(* order stays in either); completed_icebergs holds only orders that were  *)
(* confirmed and then cancelled, and total_icebergs_completed <=           *)
(* total_icebergs_detected.                                                *)
(***************************************************************************)
\* C36: the three maps and the two counters, in every state.
TrackingMapsConsistent ==
    /\ potential_icebergs \subseteq DOMAIN active_orders
    /\ confirmed_icebergs =
          {i \in DOMAIN active_orders : active_orders[i].is_confirmed_iceberg}
    /\ \A i \in DOMAIN completed_icebergs :
          /\ completed_icebergs[i].is_confirmed_iceberg
          /\ completed_icebergs[i].iceberg_start_time # None
          /\ completed_icebergs[i].completion_time # None
          /\ completed_icebergs[i].completion_time
                 >= completed_icebergs[i].iceberg_start_time
    /\ Cardinality(DOMAIN completed_icebergs) <= total_icebergs_completed
    /\ total_icebergs_completed <= total_icebergs_detected

\* a confirmed order was cancelled and its identifier came back as a new
\* candidate that is not confirmed
CompletedThenRecreated ==
    /\ DeepId \in DOMAIN completed_icebergs
    /\ DeepId \in potential_icebergs
    /\ DeepId \notin confirmed_icebergs
    /\ total_icebergs_completed = 1
    /\ total_icebergs_detected = 1

\* a confirmed order expired in the idle sweep: it is in no map and was not
\* completed
ConfirmedThenExpired ==
    /\ active_orders = <<>>
    /\ confirmed_icebergs = {}
    /\ total_icebergs_detected = 1
    /\ total_icebergs_completed = 0
(***************************************************************************)
(* C37  After any sequence of events, a new-order event for an identifier  *)
(* that is still active included, every order id in the price-level index  *)
(* refers to an order in active_orders and is stored under that order's    *)
(* current_price; after the id is cancelled no entry for it remains.       *)
(***************************************************************************)
\* C37: every entry of orders_by_price, in every state of the feed that
\* repeats an identifier.
IndexRefersToActiveOrders ==
    \A price \in DOMAIN orders_by_price :
        \A k \in 1..Len(orders_by_price[price]) :
            LET order_id == orders_by_price[price][k]
            IN /\ order_id \in DOMAIN active_orders
               /\ active_orders[order_id].current_price = price
(***************************************************************************)
(* C38  For every reachable state of the market metrics the thresholds of  *)
(* get_dynamic_thresholds satisfy minVisibleSize <= triggerSize <=         *)
(* maxVisibleSize, so the candidate window [triggerSize, maxVisibleSize]   *)
(* is never empty and every size inside it passes the admission gate.      *)
(***************************************************************************)
\* C38 as stated: the three thresholds are ordered in every state of the
\* metrics feed.
ThresholdsOrdered ==
    LET t == get_dynamic_thresholds(Detector)
    IN /\ RLe(t.min_visible_size, t.trigger_size)
       /\ RLe(t.trigger_size, t.max_visible_size)

\* C38 as the code has it: min_visible_size is at most trigger_size and at
\* most max_visible_size in every state of the metrics feed, so every size
\* of the candidate window passes the admission gate; the window itself may
\* be empty.
MinVisibleBelowWindow ==
    LET t == get_dynamic_thresholds(Detector)
    IN /\ RLe(t.min_visible_size, t.trigger_size)
       /\ RLe(t.min_visible_size, t.max_visible_size)
       /\ \A size \in {Q(n) : n \in MetricsNewRawSizes} :
              (RGe(RInt(size), t.trigger_size) /\ RLe(RInt(size), t.max_visible_size))
                  => RGe(RInt(size), t.min_visible_size)

\* the candidate window is empty: after three orders trigger_size is above
\* max_visible_size, both strictly inside their clamps
CandidateWindowEmpty ==
    LET t == get_dynamic_thresholds(Detector)
    IN /\ Len(market_metrics.order_sizes) = MetricsNewOrders
       /\ RGt(t.trigger_size, t.max_visible_size)
       /\ RLt(t.trigger_size, RInt(Q(500)))
       /\ RGt(t.max_visible_size, RInt(Q(50)))
       /\ RLt(t.min_visible_size, t.trigger_size)
(***************************************************************************)
(* C39  Every completion notification for an order is preceded by exactly  *)
(* one detection notification for that order and is caused by a cancel     *)
(* event; after an order's completion notification no further detection,   *)
(* progress or completion notification is emitted for that order lifetime  *)
(* (until the id is re-created by a new-order event).                      *)
(***************************************************************************)
\* C39: sent[i] counts the notifications of order i since the new-order event
\* that created it.  A step that sends a completion for i is the cancel of i,
\* finds exactly one detection sent and is the first completion; once a
\* completion is sent the counts of i change only when a new-order event
\* creates i again, and no message of a later event carries i before that.
NotificationOrdering ==
    [][\A i \in OrderIds :
          /\ sent'[i].full_executions > sent[i].full_executions =>
                 /\ Cancel(i)
                 /\ sent[i].detections = 1
                 /\ sent'[i].detections = 1
                 /\ sent[i].full_executions = 0
                 /\ sent'[i].full_executions = 1
                 /\ sent'[i].updates = sent[i].updates
          /\ sent[i].full_executions >= 1 =>
                 \/ /\ sent'[i] = sent[i]
                    /\ \/ outbox' = outbox
                       \/ \A k \in 1..Len(outbox') : outbox'[k].order.order_id # i
                    /\ i \in DOMAIN active_orders' => i \in DOMAIN active_orders
                 \/ /\ i \notin DOMAIN active_orders
                    /\ i \in DOMAIN active_orders'
                    /\ sent'[i] = NoSent
                    /\ outbox' = <<>>]_vars

\* an order was detected, reported in progress and then completed by its
\* cancel, and has not been created again
CompletedAfterDetectionAndProgress ==
    /\ DeepId \notin DOMAIN active_orders
    /\ sent[DeepId].detections = 1
    /\ sent[DeepId].updates >= 1
    /\ sent[DeepId].full_executions = 1
    /\ Len(outbox) = 1
    /\ outbox[1].topic = "full_executions"

\* the identifier of a completed order was created again and the new order
\* was replaced without any notification
RecreatedAfterCompletion ==
    /\ DeepId \in DOMAIN completed_icebergs
    /\ DeepId \in DOMAIN active_orders
    /\ active_orders[DeepId].replace_events.n >= 1
    /\ sent[DeepId] = NoSent
(***************************************************************************)
(* C40  In the enriched variant (icev3.py), for every tracked order and    *)
(* every sequence of new, replace and execution events, total_filled =     *)
(* active_filled + passive_filled; each execution adds its size to exactly *)
(* one of active_filled (aggressor role) or passive_filled (resting role), *)
(* and a replace event changes none of the three fill counters.            *)
(***************************************************************************)
\* the three fill counters of an order
FillCounters(o) == <<o.total_filled, o.active_filled, o.passive_filled>>

\* C40: in every step of the enriched variant's feed the counters of every
\* tracked order add up before and after; a replace event leaves the three
\* as they were; a trade adds its normalized size to passive_filled if it
\* names the order as the resting side, to active_filled if it names it as
\* the aggressor, and to total_filled once for each of the two.
FillCountersSplitByRole ==
    [][/\ \A i \in DOMAIN active_orders :
              active_orders[i].total_filled =
                  active_orders[i].active_filled + active_orders[i].passive_filled
       /\ \A i \in DOMAIN active_orders' :
              active_orders'[i].total_filled =
                  active_orders'[i].active_filled + active_orders'[i].passive_filled
       /\ \A i \in DOMAIN active_orders :
              LET o == active_orders[i]
              IN /\ \A price \in Prices, size \in V3ReplaceRawSizes :
                        V3Replace(i, price, size) =>
                            /\ i \in DOMAIN active_orders'
                            /\ FillCounters(active_orders'[i]) = FillCounters(o)
                 /\ \A size \in V3TradeRawSizes, aggressor_order_id \in {None, i},
                       passive_order_id \in {None, i} :
                        V3Trade(DeepPrice, size, TRUE, aggressor_order_id,
                                passive_order_id) =>
                            LET filled == Normalize(Detector, size)
                                as_active == IF aggressor_order_id = i THEN filled ELSE 0
                                as_passive == IF passive_order_id = i THEN filled ELSE 0
                            IN /\ i \in DOMAIN active_orders'
                               /\ active_orders'[i].active_filled =
                                      o.active_filled + as_active
                               /\ active_orders'[i].passive_filled =
                                      o.passive_filled + as_passive
                               /\ active_orders'[i].total_filled =
                                      o.total_filled + as_active + as_passive]_vars

\* an order was filled in both roles by different amounts and then lowered
\* by a replace, which left the counters at the sum of the fills
FilledInBothRolesThenLowered ==
    /\ DeepId \in DOMAIN active_orders
    /\ active_orders[DeepId].active_filled > 0
    /\ active_orders[DeepId].passive_filled > active_orders[DeepId].active_filled
    /\ active_orders[DeepId].size_decrease_count >= 1
    /\ active_orders[DeepId].current_size < active_orders[DeepId].initial_size
    /\ active_orders[DeepId].total_filled =
           active_orders[DeepId].active_filled + active_orders[DeepId].passive_filled

====
